---- MODULE Spec2Model ----
(***************************************************************************)
(* A model of the two algorithmic cores of claude-swarm-coordinator:       *)
(*   - TaskDistributor (core/distributor.py): the two-pass load-balancing  *)
(*     assignment of a task plan onto the agent pool;                      *)
(*   - SmartMerger (merge/strategies.py): merge-order planning and the     *)
(*     merge loop with its limited conflict auto-resolution.               *)
(* The two machines share no state; SpecDist runs the distributor and      *)
(* SpecMerge / SpecPlan run the merger.                                    *)
(***************************************************************************)
EXTENDS Integers, Sequences, FiniteSets, TLC

(***************************************************************************)
(* Bounds of the explored inputs.                                          *)
(***************************************************************************)
MaxTasks == 3
MaxAgents == 2
MaxPlanBranches == 3
MaxMergeBranches == 2
MaxRegistryTasks == 3
MaxConflictFiles == 2
MaxCalls == 2
MaxDiffBranches == 3
MaxWords == 3
MaxPlannerTasks == 2
MaxSaveTasks == 2
MaxPipelineTasks == 3
MaxAnalyzeTasks == 4
MaxLaunches == 2
MaxDistCalls == 2
MaxPlannerCalls == 2
MaxReplanTasks == 2
MaxMessages == 2
MaxClock == 2

VARIABLES
    \* ---- TaskDistributor ----
    task_plan,      \* tasks of tasks/task_plan.json, in file order
    agents_csv,     \* agent ids of the rows of registry/agents.csv
    tasks,          \* self.tasks
    agents,         \* self.agents
    sorted_tasks,   \* _assign_tasks: sorted_tasks, as positions in self.tasks
    unassigned,     \* _assign_tasks: unassigned, as positions in self.tasks
    cursor,         \* position of the running for-loop of _assign_tasks
    dist_pc,        \* position of distribute_tasks
    registry_out,   \* registry/tasks.csv as written by _save_distribution
    summary_out,    \* tasks/distribution_summary.json ("agents" entries)
    instructions_out, \* the agent instruction files, by agent position
    \* ---- SmartMerger: the environment of a merge run ----
    remote,         \* the lines of `git branch -r`
    registry,       \* registry/tasks.csv as read by _analyze_dependencies
    diff_env,       \* branch -> files of `git diff --name-only main...branch`
    ws,             \* the git workspace (checked-out branch, index, merges)
    \* ---- SmartMerger: the program ----
    strategy,       \* execute_merge: strategy
    merge_log,      \* self.merge_log
    conflicts,      \* self.conflicts
    branches,       \* execute_merge: branches
    merge_order,    \* execute_merge: merge_order
    predicted,      \* execute_merge: conflicts (the predicted ones)
    merge_idx,      \* position of the merge loop in merge_order
    merged_count,   \* execute_merge: merged_count
    test_result,    \* execute_merge: test_result, and the environment it ran in
    report,         \* the merge reports written by _generate_merge_report
    result,         \* the value execute_merge returns
    merge_pc,       \* position of execute_merge
    attempts,       \* history: one entry per _merge_branch call
    merge_calls,    \* number of execute_merge calls made on this SmartMerger
    \* ---- a second merge run of the project, in another process ----
    rival_pc,       \* position of its execute_merge
    rival_merged,   \* the branches it has merged
    \* ---- TaskPlanner ----
    planner_tasks,  \* self.tasks
    task_id_counter, \* self.task_id_counter
    task_result,    \* the last Task(...) evaluated: caller, arguments, task or error
    estimate,       \* the last direct call of an estimator: function, input, output
    planner_pc,     \* position of analyze_requirements
    planner_calls,  \* number of analyze_requirements calls made on this planner
    \* ---- SwarmCoordinator and SwarmDashboard: the project ----
    num_agents,     \* config/swarm.json: num_agents
    worktrees,      \* numbers of the agents whose worktree directory exists
    launches,       \* number of launch_swarm calls made
    agent_status,   \* what the last _get_agent_status returned
    \* ---- CommunicationCoordinator: the messages directory ----
    clock,          \* int(time.time()), in seconds
    msg_files,      \* messages/<id>.json: the message stored under each id
    sent,           \* history: one entry per send_message call
    inbox           \* what the last get_messages returned

varsD == <<task_plan, agents_csv, tasks, agents, sorted_tasks, unassigned,
           cursor, dist_pc, registry_out, summary_out, instructions_out>>

varsEnv == <<remote, registry, diff_env>>

varsM == <<remote, registry, diff_env, ws, strategy, merge_log, conflicts,
           branches, merge_order, predicted, merge_idx, merged_count,
           test_result, report, result, merge_pc, attempts, merge_calls>>

varsR == <<rival_pc, rival_merged>>

varsP == <<planner_tasks, task_id_counter, task_result, estimate, planner_pc,
           planner_calls>>

varsC == <<num_agents, worktrees, launches, agent_status>>

varsX == <<clock, msg_files, sent, inbox>>

vars == <<task_plan, agents_csv, tasks, agents, sorted_tasks, unassigned,
          cursor, dist_pc, registry_out, summary_out, instructions_out,
          remote, registry, diff_env, ws, strategy, merge_log, conflicts,
          branches, merge_order, predicted, merge_idx, merged_count,
          test_result, report, result, merge_pc, attempts, merge_calls,
          rival_pc, rival_merged,
          planner_tasks, task_id_counter, task_result, estimate, planner_pc,
          planner_calls,
          num_agents, worktrees, launches, agent_status,
          clock, msg_files, sent, inbox>>

(***************************************************************************)
(* Generic helpers.                                                        *)
(***************************************************************************)
RECURSIVE SumSeq(_)
SumSeq(s) == IF s = <<>> THEN 0 ELSE Head(s) + SumSeq(Tail(s))

Range(s) == {s[i] : i \in DOMAIN s}

\* Number of positions of sequence s holding x.
Count(s, x) == Cardinality({i \in DOMAIN s : s[i] = x})

(***************************************************************************)
(* Task and Agent records (planner.py Task, distributor.py Agent).         *)
(* A task id i stands for "TASK-000i", the agent id <<"agent", i>> for     *)
(* "agent-i"; <<>> is None.                                                *)
(***************************************************************************)
None == <<>>

\* No Task(...) has been evaluated yet.
NoTask == [by |-> "none"]

\* No estimator has been called directly yet.
NoEstimate == [fn |-> "none"]

\* The (complexity, priority, estimated_time) combinations of the explored
\* tasks: every complexity and every priority, tasks of equal time and
\* different complexity, tasks of equal complexity and different time.
TaskKinds ==
    { [complexity |-> "high", priority |-> "high", estimated_time |-> 90],
      [complexity |-> "medium", priority |-> "normal", estimated_time |-> 90],
      [complexity |-> "low", priority |-> "low", estimated_time |-> 30],
      [complexity |-> "high", priority |-> "normal", estimated_time |-> 30],
      [complexity |-> "low", priority |-> "high", estimated_time |-> 30],
      [complexity |-> "medium", priority |-> "low", estimated_time |-> 30] }

AgentId(i) == <<"agent", i>>

NewAgent(id) ==
    [agent_id |-> id, assigned_tasks |-> <<>>, total_time |-> 0,
     complexity_score |-> 0]

\* The task plans explored: n tasks with ids 1..n, any complexity, priority
\* and dependency set over the other ids.
TaskPlans(n) ==
    { p \in [1..n -> [kind : TaskKinds, dependencies : SUBSET (1..n)]] :
        \A i \in 1..n : i \notin p[i].dependencies }

\* The task_id of entry i of a plan: the one a saved plan records; the
\* plans of TaskPlans number their tasks by position.
PlanTaskId(p, i) ==
    IF "task_id" \in DOMAIN p[i] THEN p[i].task_id ELSE i

\* _load_task_plan: Task(**task_data) for the tasks of the file, in order.
PlanTasks(p) ==
    [i \in DOMAIN p |->
        [task_id |-> PlanTaskId(p, i), complexity |-> p[i].kind.complexity,
         priority |-> p[i].kind.priority,
         estimated_time |-> p[i].kind.estimated_time,
         dependencies |-> p[i].dependencies,
         assigned_agent |-> None]]

(***************************************************************************)
(* TaskDistributor._calculate_complexity_score                             *)
(***************************************************************************)
CalculateComplexityScore(complexity) ==
    CASE complexity = "low" -> 1
      [] complexity = "medium" -> 3
      [] complexity = "high" -> 5
      [] OTHER -> 2

\* priority_order.get(t.priority, 1)
PriorityOrder(priority) ==
    CASE priority = "high" -> 0
      [] priority = "normal" -> 1
      [] priority = "low" -> 2
      [] OTHER -> 1

\* A slip of the sort key: the complexity score is not negated.
SortKey_Ascending(t) ==
    <<Cardinality(t.dependencies), PriorityOrder(t.priority),
      CalculateComplexityScore(t.complexity)>>

\* The sort key of _assign_tasks and its lexicographic comparison.
SortKey(t) ==
    <<Cardinality(t.dependencies), PriorityOrder(t.priority),
      0 - CalculateComplexityScore(t.complexity)>>

KeyLess(a, b) ==
    \/ a[1] < b[1]
    \/ a[1] = b[1] /\ a[2] < b[2]
    \/ a[1] = b[1] /\ a[2] = b[2] /\ a[3] < b[3]

\* sorted() is stable: position i precedes position j iff its key is smaller,
\* or the keys are equal and i < j.
Precedes(ts, i, j) ==
    \/ KeyLess(SortKey(ts[i]), SortKey(ts[j]))
    \/ SortKey(ts[i]) = SortKey(ts[j]) /\ i < j

SortedTasks(ts) ==
    [k \in 1..Len(ts) |->
        CHOOSE i \in 1..Len(ts) :
            Cardinality({j \in 1..Len(ts) : Precedes(ts, j, i)}) = k - 1]

(***************************************************************************)
(* TaskDistributor._can_assign_task                                        *)
(***************************************************************************)
\* next((t for t in self.tasks if t.task_id == dep_id), None): the first match.
FindTask(ts, dep_id) ==
    IF \E i \in 1..Len(ts) : ts[i].task_id = dep_id
    THEN LET i == CHOOSE i \in 1..Len(ts) :
                    /\ ts[i].task_id = dep_id
                    /\ \A j \in 1..(i - 1) : ts[j].task_id # dep_id
         IN <<ts[i]>>
    ELSE <<>>

\* A check that treats every task an agent holds as a dependency.
HoldsDependency_AnyTask(ts, task, agent) == agent.assigned_tasks # <<>>

\* The dependency loop of _can_assign_task.
HoldsDependency(ts, task, agent) ==
    \E dep_id \in task.dependencies :
        LET found == FindTask(ts, dep_id)
        IN found # <<>> /\ found[1].assigned_agent = agent.agent_id

TotalTimes(ags) == [i \in 1..Len(ags) |-> ags[i].total_time]

\* A slip of the load limit (the comment below is of the definition after
\* this one): an agent at the limit already counts as above it.
\* agent.total_time > avg_time * 1.5 with avg_time = sum / len, in integers:
\* t > 1.5 * S / n  <=>  2 * n * t > 3 * S.  (The explored times are multiples
\* of 30 and n <= 4, so the float quotient and product are exact.)
OverLoaded_AtLimit(ags, agent) ==
    2 * Len(ags) * agent.total_time >= 3 * SumSeq(TotalTimes(ags))

OverLoaded(ags, agent) ==
    2 * Len(ags) * agent.total_time > 3 * SumSeq(TotalTimes(ags))

CanAssignTask(ts, ags, task, agent) ==
    IF HoldsDependency(ts, task, agent) THEN FALSE
    ELSE IF Len(ags) = 0 THEN TRUE
    ELSE IF OverLoaded(ags, agent) THEN FALSE
    ELSE TRUE

(***************************************************************************)
(* min(...) of _assign_tasks: the first agent of the candidates whose key  *)
(* is minimal.                                                             *)
(***************************************************************************)
LoadLess(a, b) ==
    \/ a.total_time < b.total_time
    \/ a.total_time = b.total_time /\ a.complexity_score < b.complexity_score

\* A slip of the choice: always the first agent of the pool.
BestEligible_First(ags, cand) == 1

\* min(eligible_agents, key=lambda a: (a.total_time, a.complexity_score))
BestEligible(ags, cand) ==
    CHOOSE i \in cand :
        /\ \A j \in cand : ~LoadLess(ags[j], ags[i])
        /\ \A j \in cand : j < i => LoadLess(ags[i], ags[j])

\* A slip of the forced choice: the smallest complexity score.
LeastLoaded_ByScore(ags) ==
    CHOOSE i \in 1..Len(ags) :
        /\ \A j \in 1..Len(ags) : ags[j].complexity_score >= ags[i].complexity_score
        /\ \A j \in 1..(i - 1) : ags[j].complexity_score > ags[i].complexity_score

\* min(self.agents, key=lambda a: a.total_time)
LeastLoaded(ags) ==
    CHOOSE i \in 1..Len(ags) :
        /\ \A j \in 1..Len(ags) : ags[j].total_time >= ags[i].total_time
        /\ \A j \in 1..(i - 1) : ags[j].total_time > ags[i].total_time

(***************************************************************************)
(* TaskDistributor._assign_task_to_agent(task, agent), on the task at      *)
(* position ti and the agent at position ai.                               *)
(***************************************************************************)
AssignedTask(task, agent) ==
    [task EXCEPT !.assigned_agent = agent.agent_id]

\* A slip of _assign_task_to_agent: the complexity score is not updated.
AssignedAgent_NoScore(task, agent) ==
    [agent EXCEPT
        !.assigned_tasks = Append(@, task.task_id),
        !.total_time = @ + task.estimated_time]

AssignedAgent(task, agent) ==
    [agent EXCEPT
        !.assigned_tasks = Append(@, task.task_id),
        !.total_time = @ + task.estimated_time,
        !.complexity_score = @ + CalculateComplexityScore(task.complexity)]

AssignTaskToAgent(ti, ai) ==
    /\ tasks' = [tasks EXCEPT ![ti] = AssignedTask(tasks[ti], agents[ai])]
    /\ agents' = [agents EXCEPT ![ai] = AssignedAgent(tasks[ti], agents[ai])]

(***************************************************************************)
(* distribute_tasks, up to the start of the first pass: _load_task_plan,   *)
(* _load_agents (which appends to self.agents), the two emptiness checks   *)
(* and the sort of _assign_tasks.                                          *)
(***************************************************************************)
LoadedAgents(ags, rows) ==
    ags \o [i \in 1..Len(rows) |-> NewAgent(rows[i])]

\* A slip of distribute_tasks: the empty agent pool is not checked.
DistributeTasks_NoAgentCheck ==
    /\ dist_pc = "constructed"
    /\ tasks' = PlanTasks(task_plan)
    /\ agents' = LoadedAgents(agents, agents_csv)
    /\ IF tasks' = <<>>
       THEN /\ dist_pc' = "failed"
            /\ UNCHANGED <<sorted_tasks, cursor>>
       ELSE /\ dist_pc' = "first_pass"
            /\ sorted_tasks' = SortedTasks(tasks')
            /\ cursor' = 1
    /\ UNCHANGED <<task_plan, agents_csv, unassigned, registry_out, summary_out,
                   instructions_out>>
    /\ UNCHANGED <<varsM, varsR, varsP, varsC, varsX>>

\* distribute_tasks up to the call of _assign_tasks: load the plan and the
\* agents, raise ValueError if either is empty.
DistributeTasks ==
    /\ dist_pc = "constructed"
    /\ tasks' = PlanTasks(task_plan)
    /\ agents' = LoadedAgents(agents, agents_csv)
    /\ IF tasks' = <<>> \/ agents' = <<>>
       THEN /\ dist_pc' = "failed"
            /\ UNCHANGED <<sorted_tasks, cursor>>
       ELSE /\ dist_pc' = "first_pass"
            /\ sorted_tasks' = SortedTasks(tasks')
            /\ cursor' = 1
    /\ UNCHANGED <<task_plan, agents_csv, unassigned, registry_out, summary_out,
                   instructions_out>>
    /\ UNCHANGED <<varsM, varsR, varsP, varsC, varsX>>

\* A slip of _assign_tasks: the deferred tasks are never forced onto an agent.
AfterFirstPass_NoSecondPass(k, un) ==
    IF k < Len(sorted_tasks) THEN <<"first_pass", k + 1>> ELSE <<"assigned", 1>>

\* Where _assign_tasks stands after the first pass has handled position k
\* with the list of deferred tasks un.
AfterFirstPass(k, un) ==
    IF k < Len(sorted_tasks) THEN <<"first_pass", k + 1>>
    ELSE IF un # <<>> THEN <<"second_pass", 1>>
    ELSE <<"assigned", 1>>

EligibleAgents(ts, ags, task) ==
    {i \in 1..Len(ags) : CanAssignTask(ts, ags, task, ags[i])}

\* One iteration of the first loop of _assign_tasks.
FirstPassStep ==
    /\ dist_pc = "first_pass"
    /\ LET ti == sorted_tasks[cursor]
           eligible == EligibleAgents(tasks, agents, tasks[ti])
       IN IF eligible # {}
          THEN /\ AssignTaskToAgent(ti, BestEligible(agents, eligible))
               /\ UNCHANGED unassigned
               /\ dist_pc' = AfterFirstPass(cursor, unassigned)[1]
               /\ cursor' = AfterFirstPass(cursor, unassigned)[2]
          ELSE /\ unassigned' = Append(unassigned, ti)
               /\ UNCHANGED <<tasks, agents>>
               /\ dist_pc' = AfterFirstPass(cursor, unassigned')[1]
               /\ cursor' = AfterFirstPass(cursor, unassigned')[2]
    /\ UNCHANGED <<task_plan, agents_csv, sorted_tasks, registry_out, summary_out,
                   instructions_out>>
    /\ UNCHANGED <<varsM, varsR, varsP, varsC, varsX>>

\* One iteration of the second loop of _assign_tasks (forced assignment).
SecondPassStep ==
    /\ dist_pc = "second_pass"
    /\ AssignTaskToAgent(unassigned[cursor], LeastLoaded(agents))
    /\ IF cursor < Len(unassigned)
       THEN cursor' = cursor + 1 /\ dist_pc' = "second_pass"
       ELSE cursor' = 1 /\ dist_pc' = "assigned"
    /\ UNCHANGED <<task_plan, agents_csv, sorted_tasks, unassigned,
                   registry_out, summary_out, instructions_out>>
    /\ UNCHANGED <<varsM, varsR, varsP, varsC, varsX>>

(***************************************************************************)
(* The rest of distribute_tasks: _save_distribution writes the task        *)
(* registry and the distribution summary.                                  *)
(***************************************************************************)
RegistryRows(ts) ==
    [i \in 1..Len(ts) |->
        [task_id |-> ts[i].task_id, dependencies |-> ts[i].dependencies,
         assigned_agent |-> ts[i].assigned_agent]]

SummaryAgents(ags) ==
    [i \in 1..Len(ags) |->
        [agent_id |-> ags[i].agent_id,
         tasks_assigned |-> Len(ags[i].assigned_tasks),
         total_time |-> ags[i].total_time,
         complexity_score |-> ags[i].complexity_score,
         task_ids |-> ags[i].assigned_tasks]]

\* _generate_agent_instructions: one file per agent that has tasks, listing
\* the tasks assigned to the agent's id in the order of self.tasks; None for
\* an agent without tasks (no file is written).
TasksAssignedTo(ts, id) ==
    LET RECURSIVE From(_)
        From(i) == IF i > Len(ts) THEN <<>>
                   ELSE (IF ts[i].assigned_agent = id THEN <<ts[i].task_id>>
                         ELSE <<>>) \o From(i + 1)
    IN From(1)

AgentInstructions(ts, ags) ==
    [a \in 1..Len(ags) |-> TasksAssignedTo(ts, ags[a].agent_id)]

\* The outputs of distribute_tasks after _assign_tasks, as one step.
SaveDistribution ==
    /\ dist_pc = "assigned"
    /\ instructions_out' = AgentInstructions(tasks, agents)
    /\ registry_out' = RegistryRows(tasks)
    /\ summary_out' = SummaryAgents(agents)
    /\ dist_pc' = "done"
    /\ UNCHANGED <<task_plan, agents_csv, tasks, agents, sorted_tasks,
                   unassigned, cursor>>
    /\ UNCHANGED <<varsM, varsR, varsP, varsC, varsX>>

\* The same outputs file by file, as a reader of the project directory can
\* see them: the instruction files, then registry/tasks.csv, then
\* tasks/distribution_summary.json, each opened, written and closed before
\* the next.
GenerateAgentInstructions ==
    /\ dist_pc = "assigned"
    /\ instructions_out' = AgentInstructions(tasks, agents)
    /\ dist_pc' = "instructed"
    /\ UNCHANGED <<task_plan, agents_csv, tasks, agents, sorted_tasks,
                   unassigned, cursor, registry_out, summary_out>>
    /\ UNCHANGED <<varsM, varsR, varsP, varsC, varsX>>

WriteRegistry ==
    /\ dist_pc = "instructed"
    /\ registry_out' = RegistryRows(tasks)
    /\ dist_pc' = "registry_saved"
    /\ UNCHANGED <<task_plan, agents_csv, tasks, agents, sorted_tasks,
                   unassigned, cursor, instructions_out, summary_out>>
    /\ UNCHANGED <<varsM, varsR, varsP, varsC, varsX>>

WriteSummary ==
    /\ dist_pc = "registry_saved"
    /\ summary_out' = SummaryAgents(agents)
    /\ dist_pc' = "done"
    /\ UNCHANGED <<task_plan, agents_csv, tasks, agents, sorted_tasks,
                   unassigned, cursor, instructions_out, registry_out>>
    /\ UNCHANGED <<varsM, varsR, varsP, varsC, varsX>>

(***************************************************************************)
(*                              SmartMerger                                *)
(*                                                                         *)
(* Names.  A branch "swarm-agent-<project>-<n>" is <<"swarm-agent",        *)
(* Project, n>>, a line of `git branch -r` is <<"origin">> followed by the *)
(* branch name, the agent id "agent-<n>" is <<"agent", n>> (as in the      *)
(* distributor).  Strings are compared through the decimal digits of n,    *)
(* the only part in which two agent branches of one project differ.        *)
(***************************************************************************)
Project == "p"
BranchNumbers == {1, 2, 10}

BranchName(n) == <<"swarm-agent", Project, n>>
RemoteLine(n) == <<"origin", "swarm-agent", Project, n>>
MainLine == <<"origin", "main">>

Digits(n) == IF n < 10 THEN <<n>> ELSE <<n \div 10, n % 10>>

\* Python's str comparison a < b on two digit strings.
RECURSIVE StrLess(_, _)
StrLess(a, b) ==
    IF b = <<>> THEN FALSE
    ELSE IF a = <<>> THEN TRUE
    ELSE IF Head(a) # Head(b) THEN Head(a) < Head(b)
    ELSE StrLess(Tail(a), Tail(b))

BranchLess(a, b) == StrLess(Digits(a[3]), Digits(b[3]))

\* sorted(branches), numerically: a slip that orders "-2" before "-10".
SortedBranches_Numeric(bs) ==
    [k \in 1..Len(bs) |->
        bs[CHOOSE i \in 1..Len(bs) :
            Cardinality({j \in 1..Len(bs) :
                \/ bs[j][3] < bs[i][3]
                \/ bs[j][3] = bs[i][3] /\ j < i}) = k - 1]]

\* sorted(branches): stable, by string comparison.
SortedBranches(bs) ==
    [k \in 1..Len(bs) |->
        bs[CHOOSE i \in 1..Len(bs) :
            Cardinality({j \in 1..Len(bs) :
                \/ BranchLess(bs[j], bs[i])
                \/ bs[j] = bs[i] /\ j < i}) = k - 1]]

(***************************************************************************)
(* SmartMerger._get_agent_branches: the lines that start with              *)
(* "origin/swarm-agent-<project>-", with "origin/" removed.                *)
(***************************************************************************)
IsAgentLine(line) ==
    /\ Len(line) = 4
    /\ line[1] = "origin"
    /\ line[2] = "swarm-agent"
    /\ line[3] = Project

RECURSIVE GetAgentBranches(_)
GetAgentBranches(lines) ==
    IF lines = <<>> THEN <<>>
    ELSE IF IsAgentLine(Head(lines))
         THEN <<Tail(Head(lines))>> \o GetAgentBranches(Tail(lines))
         ELSE GetAgentBranches(Tail(lines))

(***************************************************************************)
(* SmartMerger._log: an entry is its level and its message (the timestamp  *)
(* is left out).                                                           *)
(***************************************************************************)
Log(level, msg) == [level |-> level, msg |-> msg]
Info(msg) == Log("INFO", msg)

(***************************************************************************)
(* SmartMerger._analyze_dependencies                                       *)
(***************************************************************************)
\* agent_tasks: the rows with a task id and an agent, by agent.
AgentNodes(rows) ==
    {rows[i].assigned_agent : i \in {j \in 1..Len(rows) :
                                        rows[j].assigned_agent # None}}

TasksOf(rows, agent) ==
    {rows[i].task_id : i \in {j \in 1..Len(rows) :
                                  rows[j].assigned_agent = agent}}

DepsOf(rows, agent) ==
    UNION {rows[i].dependencies : i \in {j \in 1..Len(rows) :
                                             rows[j].assigned_agent = agent}}

\* The edges reversed: a slip that makes the dependent agent the source.
AgentEdges_Reversed(rows) ==
    {e \in AgentNodes(rows) \X AgentNodes(rows) :
        /\ e[1] # e[2]
        /\ DepsOf(rows, e[1]) \cap TasksOf(rows, e[2]) # {}}

\* G.add_edge(other_agent, agent) for every dependency of agent that is a
\* task of other_agent, other_agent != agent.
AgentEdges(rows) ==
    {e \in AgentNodes(rows) \X AgentNodes(rows) :
        /\ e[1] # e[2]
        /\ DepsOf(rows, e[2]) \cap TasksOf(rows, e[1]) # {}}

\* A sort that returns the nodes in any order, whatever the edges.
TopologicalOrders_AnyOrder(nodes, edges) ==
    {o \in [1..Cardinality(nodes) -> nodes] :
        \A i, j \in DOMAIN o : i # j => o[i] # o[j]}

\* nx.topological_sort: the orders of the nodes in which every edge points
\* forward; none exists iff the graph has a cycle (NetworkXUnfeasible).
TopologicalOrders(nodes, edges) ==
    {o \in [1..Cardinality(nodes) -> nodes] :
        /\ \A i, j \in DOMAIN o : i # j => o[i] # o[j]
        /\ \A e \in edges :
            \A i, j \in DOMAIN o : o[i] = e[1] /\ o[j] = e[2] => i < j}

\* f"swarm-agent-{self.project_name}-{agent.split('-')[-1]}"
BranchOfAgent(agent) == <<"swarm-agent", Project, agent[Len(agent)]>>

\* The branches of agent_order that _get_agent_branches lists.
RECURSIVE BranchesOfOrder(_, _)
BranchesOfOrder(agent_order, bs) ==
    IF agent_order = <<>> THEN <<>>
    ELSE (IF \E i \in 1..Len(bs) : bs[i] = BranchOfAgent(Head(agent_order))
          THEN <<BranchOfAgent(Head(agent_order))>> ELSE <<>>)
         \o BranchesOfOrder(Tail(agent_order), bs)

\* The results _analyze_dependencies can return, each with the log entries
\* it makes: [order, log].
AnalyzeDependencies(reg, lines) ==
    LET start == <<Info(<<"Analyzing dependencies">>)>>
        fallback == SortedBranches(GetAgentBranches(lines))
        nodes == AgentNodes(reg.rows)
        orders == TopologicalOrders(nodes, AgentEdges(reg.rows))
    IN IF ~reg.exists
       THEN {[order |-> fallback, log |-> start]}
       ELSE IF orders = {}
       THEN {[order |-> fallback,
              log |-> start \o <<Log("WARNING", <<"Circular dependencies">>)>>]}
       ELSE {[order |-> BranchesOfOrder(o, GetAgentBranches(lines)),
              log |-> start \o <<Info(<<"Optimal merge order",
                            BranchesOfOrder(o, GetAgentBranches(lines))>>)>>] :
                o \in orders}

\* merge_order of execute_merge.
PlanOrder(strat, reg, lines, bs) ==
    IF strat = "smart" THEN AnalyzeDependencies(reg, lines)
    ELSE {[order |-> SortedBranches(bs), log |-> <<>>]}

(***************************************************************************)
(* SmartMerger._predict_conflicts.  diff[b] is what                        *)
(* `git diff --name-only main...b` does: diff[b].files are the files b     *)
(* changed, diff[b].returncode is 0 if the command printed them and 1 if   *)
(* it failed (its output is then ignored).                                 *)
(***************************************************************************)
\* file_changes after one more (file, branch): a sequence of [file, branches]
\* in the order in which the files were first seen.
AddChange(fc, file, b) ==
    IF \E i \in 1..Len(fc) : fc[i].file = file
    THEN [i \in 1..Len(fc) |->
            IF fc[i].file = file
            THEN [fc[i] EXCEPT !.branches = Append(@, b)] ELSE fc[i]]
    ELSE Append(fc, [file |-> file, branches |-> <<b>>])

RECURSIVE AddChanges(_, _, _)
AddChanges(fc, files, b) ==
    IF files = <<>> THEN fc
    ELSE AddChanges(AddChange(fc, Head(files), b), Tail(files), b)

RECURSIVE FileChanges(_, _, _)
FileChanges(fc, bs, diff) ==
    IF bs = <<>> THEN fc
    ELSE FileChanges(IF diff[Head(bs)].returncode = 0
                     THEN AddChanges(fc, diff[Head(bs)].files, Head(bs))
                     ELSE fc,
                     Tail(bs), diff)

\* A slip of the severity: high from two branches on.
Severity_FromTwo(branches_list) ==
    IF Len(branches_list) > 1 THEN "high" ELSE "medium"

Severity(branches_list) == IF Len(branches_list) > 2 THEN "high" ELSE "medium"

RECURSIVE ConflictsOf(_)
ConflictsOf(fc) ==
    IF fc = <<>> THEN <<>>
    ELSE (IF Len(Head(fc).branches) > 1
          THEN <<[file |-> Head(fc).file, branches |-> Head(fc).branches,
                  severity |-> Severity(Head(fc).branches)]>>
          ELSE <<>>) \o ConflictsOf(Tail(fc))

PredictConflicts(bs, diff) == ConflictsOf(FileChanges(<<>>, bs, diff))

PredictLog(found) ==
    <<Info(<<"Predicting potential conflicts">>)>>
    \o [i \in 1..Len(found) |->
          Log("WARNING", <<"Potential conflict", found[i].file,
                           Len(found[i].branches)>>)]

(***************************************************************************)
(* Conflicted files.  A file is its path words, its extension and whether  *)
(* the incoming branch still has a version of it (it has none when the     *)
(* branch deleted the file: `git checkout --theirs` then fails).           *)
(***************************************************************************)
FileGen == [path |-> <<"Generated", "api">>, ext |-> ".py", theirs |-> TRUE]
FileMd == [path |-> <<"README">>, ext |-> ".md", theirs |-> TRUE]
FilePy == [path |-> <<"app">>, ext |-> ".py", theirs |-> TRUE]
FileJson == [path |-> <<"data">>, ext |-> ".json", theirs |-> FALSE]

\* The files in the order in which git lists them (by path).
FileOrder == <<FileGen, FileMd, FilePy, FileJson>>

InSet(S, f) == f \in S

RECURSIVE Filter(_, _)
Filter(fs, S) ==
    IF fs = <<>> THEN <<>>
    ELSE (IF Head(fs) \in S THEN <<Head(fs)>> ELSE <<>>) \o Filter(Tail(fs), S)

\* file.lower(), word by word.
Lower(w) == IF w = "Generated" THEN "generated" ELSE w

\* A slip of the safe rule: every file counts as safe.
IsSafe_Always(file) == TRUE

\* file.endswith(('.md', '.json', '.txt')) or 'generated' in file.lower()
IsSafe(file) ==
    \/ file.ext \in {".md", ".json", ".txt"}
    \/ \E i \in 1..Len(file.path) : Lower(file.path[i]) = "generated"

(***************************************************************************)
(* The git workspace and the git commands the merger runs on it.           *)
(*   head: the checked-out branch; merged: the agent branches merged into  *)
(*   it by this run; merge_head: <<b>> while a merge of b is in progress;  *)
(*   unmerged: the conflicted files of the index; staged: the files the    *)
(*   resolver has checked out from the incoming branch and staged.         *)
(* What `git merge <branch>` does is the environment's choice `out`:       *)
(*   clean: the merge commit is made;                                      *)
(*   conflict: GitCommandError, the merge stays in progress with out.files *)
(*     conflicted;                                                         *)
(*   error: GitCommandError without a merge in progress (the branch cannot *)
(*     be merged at all: no such ref, local changes in the way);           *)
(*   crash: an exception that is not a GitCommandError (the git process    *)
(*     could not be started: GitCommandNotFound, OSError).                 *)
(***************************************************************************)
CleanWorkspace ==
    [head |-> "work", merged |-> {}, merge_head |-> <<>>, unmerged |-> {},
     staged |-> {}]

GitMerge(w, b, out) ==
    IF out.kind = "crash" THEN [raised |-> "other", ws |-> w]
    ELSE IF w.merge_head # <<>> \/ out.kind = "error"
    THEN [raised |-> "GitCommandError", ws |-> w]
    ELSE IF out.kind = "conflict"
    THEN [raised |-> "GitCommandError",
          ws |-> [w EXCEPT !.merge_head = <<b>>,
                           !.unmerged = {out.files[i] : i \in 1..Len(out.files)}]]
    ELSE [raised |-> "none", ws |-> [w EXCEPT !.merged = @ \cup {b}]]

\* `git diff --name-only --diff-filter=U`
UnmergedFiles(w) == Filter(FileOrder, w.unmerged)

\* `git checkout --theirs <file>` succeeds iff the file is conflicted and the
\* incoming branch has a version of it.
GitCheckoutTheirsOk(w, file) == file \in w.unmerged /\ file.theirs

\* `git add <file>`
GitAdd(w, file) ==
    [w EXCEPT !.unmerged = @ \ {file}, !.staged = @ \cup {file}]

\* `git commit --no-edit` concludes a merge whose conflicts are all resolved;
\* it fails on unresolved conflicts and when there is nothing to commit.
GitCommit(w) ==
    IF w.merge_head # <<>> /\ w.unmerged = {}
    THEN [ok |-> TRUE,
          ws |-> [w EXCEPT !.merged = @ \cup {w.merge_head[1]},
                           !.merge_head = <<>>, !.staged = {}]]
    ELSE [ok |-> FALSE, ws |-> w]

\* `git merge --abort` restores the state before the merge; it fails when no
\* merge is in progress.
GitMergeAbort(w) ==
    IF w.merge_head # <<>>
    THEN [ok |-> TRUE,
          ws |-> [w EXCEPT !.merge_head = <<>>, !.unmerged = {}, !.staged = {}]]
    ELSE [ok |-> FALSE, ws |-> w]

(***************************************************************************)
(* SmartMerger._auto_resolve_conflicts                                     *)
(***************************************************************************)
\* One iteration of the loop over conflict_files.
ResolveFile(acc, file) ==
    LET logged == [acc EXCEPT
                     !.log = Append(@, Info(<<"Attempting to auto-resolve", file>>))]
    IN IF IsSafe(file)
       THEN IF GitCheckoutTheirsOk(acc.ws, file)
            THEN [logged EXCEPT
                    !.ws = GitAdd(@, file),
                    !.log = Append(@, Info(<<"Resolved", file>>)),
                    !.taken = Append(@, file)]
            ELSE [logged EXCEPT !.resolved_all = FALSE]
       ELSE [logged EXCEPT !.resolved_all = FALSE]

RECURSIVE ResolveFiles(_, _)
ResolveFiles(acc, files) ==
    IF files = <<>> THEN acc
    ELSE ResolveFiles(ResolveFile(acc, Head(files)), Tail(files))

\* [ok, ws, log, taken]: the value returned, the workspace left, the entries
\* logged and the files checked out and staged.
AutoResolveConflicts(w, conflict_files) ==
    LET r == ResolveFiles([ws |-> w, resolved_all |-> TRUE, log |-> <<>>,
                           taken |-> <<>>], conflict_files)
        c == GitCommit(r.ws)
    IN IF r.resolved_all
       THEN [ok |-> c.ok, ws |-> c.ws, log |-> r.log, taken |-> r.taken]
       ELSE [ok |-> FALSE, ws |-> r.ws, log |-> r.log, taken |-> r.taken]

(***************************************************************************)
(* SmartMerger._merge_branch.  [ret, ws, log, record, taken]: ret is       *)
(* "True", "False" or "raise" (the exception leaves _merge_branch),        *)
(* record the conflict_info appended to self.conflicts, if any.            *)
(***************************************************************************)
ConflictInfo(b, files, resolved) ==
    [branch |-> b, files |-> files, resolved |-> resolved]

\* What `git merge --abort` does during the attempt with outcome out: "ok"
\* unless the outcome says that git cannot write the index ("fails").
AbortOutcome(out) == IF "abort" \in DOMAIN out THEN out.abort ELSE "ok"

GitMergeAbortUnder(w, out) ==
    IF AbortOutcome(out) = "ok" THEN GitMergeAbort(w)
    ELSE [ok |-> FALSE, ws |-> w]

\* The except GitCommandError branch.
HandleConflict(w, b, log, out) ==
    LET conflict_files == UnmergedFiles(w)
        a == AutoResolveConflicts(w, conflict_files)
        ab == GitMergeAbortUnder(a.ws, out)
    IN IF a.ok
       THEN [ret |-> "True", ws |-> a.ws,
             log |-> log \o a.log
                     \o <<Log("SUCCESS", <<"Automatically resolved", b>>)>>,
             record |-> <<ConflictInfo(b, conflict_files, TRUE)>>,
             taken |-> a.taken]
       ELSE IF ab.ok
       THEN [ret |-> "False", ws |-> ab.ws,
             log |-> log \o a.log
                     \o <<Log("ERROR", <<"Could not auto-resolve", b>>)>>,
             record |-> <<ConflictInfo(b, conflict_files, FALSE)>>,
             taken |-> a.taken]
       \* merge --abort raised: except Exception, a second merge --abort
       \* whose failure is ignored.
       ELSE [ret |-> "False", ws |-> GitMergeAbortUnder(ab.ws, out).ws,
             log |-> log \o a.log,
             record |-> <<ConflictInfo(b, conflict_files, FALSE)>>,
             taken |-> a.taken]

MergeBranch(w, b, out) ==
    LET m == GitMerge(w, b, out)
        log == <<Info(<<"Merging", b>>)>>
    IN IF m.raised = "none"
       THEN [ret |-> "True", ws |-> m.ws,
             log |-> log \o <<Log("SUCCESS", <<"Successfully merged", b>>)>>,
             record |-> <<>>, taken |-> <<>>]
       ELSE IF m.raised = "GitCommandError"
       THEN HandleConflict(m.ws, b,
                log \o <<Log("ERROR", <<"Conflict detected", b>>)>>, out)
       ELSE [ret |-> "raise", ws |-> m.ws, log |-> log, record |-> <<>>,
             taken |-> <<>>]

(***************************************************************************)
(* SmartMerger._run_tests.  env.present: the executables `which` finds;    *)
(* env.outcome[k]: what running command k does ("pass": exit status 0,     *)
(* "fail": another exit status, "raise": subprocess.run raises, as on the  *)
(* timeout).                                                               *)
(***************************************************************************)
TestCommands ==
    <<[exe |-> "npm", args |-> <<"test">>],
      [exe |-> "python", args |-> <<"-m", "pytest">>],
      [exe |-> "make", args |-> <<"test">>],
      [exe |-> "npm", args |-> <<"run", "test">>]>>

RECURSIVE RunTestsFrom(_, _)
RunTestsFrom(k, env) ==
    IF k > Len(TestCommands)
    THEN [passed |-> TRUE, ran |-> <<>>,
          log |-> <<Log("WARNING", <<"No test suite found">>)>>]
    ELSE IF TestCommands[k].exe \in env.present
    THEN IF env.outcome[k] = "pass"
         THEN [passed |-> TRUE, ran |-> <<k>>,
               log |-> <<Log("SUCCESS", <<"Tests passed">>)>>]
         ELSE IF env.outcome[k] = "fail"
         THEN [passed |-> FALSE, ran |-> <<k>>,
               log |-> <<Log("ERROR", <<"Tests failed">>),
                         Info(<<"Test output">>), Info(<<"Test errors">>)>>]
         ELSE LET rest == RunTestsFrom(k + 1, env)
              IN [rest EXCEPT !.ran = <<k>> \o @]
    ELSE RunTestsFrom(k + 1, env)

RunTests(env) ==
    LET r == RunTestsFrom(1, env)
    IN [r EXCEPT !.log = <<Info(<<"Running tests">>)>> \o @]

(***************************************************************************)
(* execute_merge, one action per phase.                                    *)
(***************************************************************************)
NoResult == [kind |-> "none"]
ErrorResult(e) == [kind |-> "error", success |-> FALSE, error |-> e]

Resolved(cs) == {i \in 1..Len(cs) : cs[i].resolved}
Unresolved(cs) == {i \in 1..Len(cs) : ~cs[i].resolved}

\* A slip of the result: success only if every branch was merged.
Success_AllMerged(count, total) == count = total

\* 'success': merged_count > 0
Success(count, total) == count > 0

SummaryResult(count, bs, cs, passed) ==
    [kind |-> "summary",
     success |-> Success(count, Len(bs)),
     merged_branches |-> count,
     total_branches |-> Len(bs),
     conflicts_resolved |-> Cardinality(Resolved(cs)),
     manual_conflicts |-> Cardinality(Unresolved(cs)),
     test_passed |-> passed,
     merge_branch |-> "merge",
     error |-> IF count = Len(bs) THEN <<>> ELSE <<"Only", count, Len(bs)>>]

\* A slip of execute_merge: the number of branches is logged before the
\* empty check.
Discover_LogFirst(strats) ==
    /\ merge_pc = "constructed"
    /\ strategy' \in strats
    /\ branches' = GetAgentBranches(remote)
    /\ merge_log' = Append(merge_log, Info(<<"Found", Len(branches')>>))
    /\ IF branches' = <<>>
       THEN /\ result' = ErrorResult(<<"No agent branches found to merge">>)
            /\ merge_pc' = "done"
       ELSE /\ merge_pc' = "planning"
            /\ UNCHANGED result
    /\ UNCHANGED <<varsEnv, ws, conflicts, merge_order, predicted, merge_idx,
                   merged_count, test_result, report, attempts>>
    /\ UNCHANGED <<varsD, merge_calls, varsR, varsP, varsC, varsX>>

\* Branch discovery: the start of execute_merge(strategy).
Discover(strats) ==
    /\ merge_pc = "constructed"
    /\ strategy' \in strats
    /\ branches' = GetAgentBranches(remote)
    /\ IF branches' = <<>>
       THEN /\ result' = ErrorResult(<<"No agent branches found to merge">>)
            /\ merge_pc' = "done"
            /\ UNCHANGED merge_log
       ELSE /\ merge_log' = Append(merge_log, Info(<<"Found", Len(branches')>>))
            /\ merge_pc' = "planning"
            /\ UNCHANGED result
    /\ UNCHANGED <<varsEnv, ws, conflicts, merge_order, predicted, merge_idx,
                   merged_count, test_result, report, attempts>>
    /\ UNCHANGED <<varsD, merge_calls, varsR, varsP, varsC, varsX>>

\* Order planning.
Plan ==
    /\ merge_pc = "planning"
    /\ \E p \in PlanOrder(strategy, registry, remote, branches) :
        /\ merge_order' = p.order
        /\ merge_log' = merge_log \o p.log
    /\ merge_pc' = "predicting"
    /\ UNCHANGED <<varsEnv, ws, strategy, conflicts, branches, predicted,
                   merge_idx, merged_count, test_result, report, result,
                   attempts>>
    /\ UNCHANGED <<varsD, merge_calls, varsR, varsP, varsC, varsX>>

\* Conflict prediction.
\* A prediction that files its findings with the realized conflicts.
Predict_IntoConflicts ==
    /\ merge_pc = "predicting"
    /\ predicted' = PredictConflicts(branches, diff_env)
    /\ merge_log' = merge_log \o PredictLog(predicted')
                    \o <<Info(<<"Predicted", Len(predicted')>>)>>
    /\ conflicts' = conflicts \o
          [i \in 1..Len(predicted') |->
              ConflictInfo(predicted'[i].branches[1], <<>>, FALSE)]
    /\ merge_pc' = "creating"
    /\ UNCHANGED <<varsEnv, ws, strategy, branches, merge_order,
                   merge_idx, merged_count, test_result, report, result,
                   attempts>>
    /\ UNCHANGED <<varsD, merge_calls, varsR, varsP, varsC, varsX>>

Predict ==
    /\ merge_pc = "predicting"
    /\ predicted' = PredictConflicts(branches, diff_env)
    /\ merge_log' = merge_log \o PredictLog(predicted')
                    \o <<Info(<<"Predicted", Len(predicted')>>)>>
    /\ merge_pc' = "creating"
    /\ UNCHANGED <<varsEnv, ws, strategy, conflicts, branches, merge_order,
                   merge_idx, merged_count, test_result, report, result,
                   attempts>>
    /\ UNCHANGED <<varsD, merge_calls, varsR, varsP, varsC, varsX>>

\* _create_merge_branch: check out main, pull, create and check out the merge
\* branch; a failure of one of them is raised again and ends execute_merge
\* in its except clause.
CreateOutcomes == {"ok", "checkout_main_fails", "pull_fails"}

CreateMergeBranch ==
    /\ merge_pc = "creating"
    /\ merge_log' = Append(merge_log, Info(<<"Creating merge branch">>))
    /\ \E c \in CreateOutcomes :
        /\ ws' = CASE c = "ok" -> [ws EXCEPT !.head = "merge", !.merged = {}]
                  [] c = "pull_fails" -> [ws EXCEPT !.head = "main", !.merged = {}]
                  [] OTHER -> ws
        /\ IF c = "ok"
           THEN /\ merge_pc' = IF merge_order = <<>> THEN "validating"
                               ELSE "merging"
                /\ UNCHANGED result
           ELSE /\ merge_pc' = "done"
                /\ result' = ErrorResult(<<"exception", c>>)
    /\ UNCHANGED <<varsEnv, strategy, conflicts, branches, merge_order,
                   predicted, merge_idx, merged_count, test_result, report,
                   attempts>>
    /\ UNCHANGED <<varsD, merge_calls, varsR, varsP, varsC, varsX>>

\* One iteration of the merge loop: _merge_branch(branch) and the count or
\* the "Failed to merge" entry.
MergeBranchStep(outs) ==
    /\ merge_pc = "merging"
    /\ \E out \in outs :
        LET b == merge_order[merge_idx]
            r == MergeBranch(ws, b, out)
        IN /\ ws' = r.ws
           /\ conflicts' = conflicts \o r.record
           /\ attempts' = Append(attempts,
                  [branch |-> b, out |-> out, ret |-> r.ret,
                   taken |-> r.taken, before |-> ws, after |-> r.ws])
           /\ merged_count' = IF r.ret = "True" THEN merged_count + 1
                              ELSE merged_count
           /\ merge_log' = IF r.ret = "False"
                           THEN merge_log \o r.log
                                \o <<Log("ERROR", <<"Failed to merge", b>>)>>
                           ELSE merge_log \o r.log
           /\ IF r.ret = "raise"
              THEN /\ result' = ErrorResult(<<"exception", "merge">>)
                   /\ merge_pc' = "done"
                   /\ UNCHANGED merge_idx
              ELSE /\ UNCHANGED result
                   /\ merge_idx' = merge_idx + 1
                   /\ merge_pc' = IF merge_idx < Len(merge_order)
                                  THEN "merging" ELSE "validating"
    /\ UNCHANGED <<varsEnv, strategy, branches, merge_order, predicted,
                   test_result, report>>
    /\ UNCHANGED <<varsD, merge_calls, varsR, varsP, varsC, varsX>>

\* Validation: _run_tests.
Validate(envs) ==
    /\ merge_pc = "validating"
    /\ \E env \in envs :
        /\ test_result' = <<RunTests(env).passed, env>>
        /\ merge_log' = merge_log \o RunTests(env).log
    /\ merge_pc' = "reporting"
    /\ UNCHANGED <<varsEnv, ws, strategy, conflicts, branches, merge_order,
                   predicted, merge_idx, merged_count, report, result,
                   attempts>>
    /\ UNCHANGED <<varsD, merge_calls, varsR, varsP, varsC, varsX>>

\* Reporting: _generate_merge_report, then the result.
MergeReport(lines, cs, log) ==
    [total |-> Len(GetAgentBranches(lines)),
     conflicts |-> cs,
     auto_resolved |-> Cardinality(Resolved(cs)),
     log |-> log]

Report ==
    /\ merge_pc = "reporting"
    /\ report' = Append(report, MergeReport(remote, conflicts, merge_log))
    /\ result' = SummaryResult(merged_count, branches, conflicts,
                               test_result[1])
    /\ merge_log' = merge_log \o <<Info(<<"Merge report saved">>)>>
         \o (IF merged_count = Len(branches)
             THEN <<Log("SUCCESS", <<"All branches merged successfully!">>)>>
             ELSE <<>>)
    /\ merge_pc' = "done"
    /\ UNCHANGED <<varsEnv, ws, strategy, conflicts, branches, merge_order,
                   predicted, merge_idx, merged_count, test_result, attempts>>
    /\ UNCHANGED <<varsD, merge_calls, varsR, varsP, varsC, varsX>>

(***************************************************************************)
(* The inputs of the merger's specifications.                              *)
(***************************************************************************)
Strategies == {"smart", "sequential"}

\* The sequences without repetition over S of at most n elements.
Arrangements(S, n) ==
    UNION {{q \in [1..k -> S] : \A i, j \in 1..k : i # j => q[i] # q[j]} :
            k \in 0..n}

\* `git branch -r`: origin/main and the agent branches of at most n of the
\* branch numbers, in any order (the order depends on git's branch.sort).
Remotes(n) ==
    {<<MainLine>> \o [i \in 1..Len(q) |-> RemoteLine(q[i])] :
        q \in Arrangements(BranchNumbers, n)}

\* As git lists them by default: sorted by name.
RemotesSorted(n) ==
    {r \in Remotes(n) : GetAgentBranches(r) = SortedBranches(GetAgentBranches(r))}

RegistryAgents == {None} \cup {AgentId(n) : n \in BranchNumbers}

NoRegistry == [exists |-> FALSE, rows |-> <<>>]

\* The task registries of n rows: task ids 1..n, any agent or none, any
\* dependencies on the other tasks.
Registries(n) ==
    {[exists |-> TRUE,
      rows |-> [i \in 1..n |-> [task_id |-> i,
                                assigned_agent |-> f[i].assigned_agent,
                                dependencies |-> f[i].dependencies]]] :
        f \in {g \in [1..n -> [assigned_agent : RegistryAgents,
                               dependencies : SUBSET (1..n)]] :
                    \A i \in 1..n : i \notin g[i].dependencies}}

\* Three registries for the runs that explore the merge loop: none, one
\* with a dependency across two agents, one with a cycle between them.
ChainRegistry ==
    [exists |-> TRUE,
     rows |-> <<[task_id |-> 1, assigned_agent |-> AgentId(2), dependencies |-> {}],
                [task_id |-> 2, assigned_agent |-> AgentId(1), dependencies |-> {1}]>>]
CycleRegistry ==
    [exists |-> TRUE,
     rows |-> <<[task_id |-> 1, assigned_agent |-> AgentId(2), dependencies |-> {2}],
                [task_id |-> 2, assigned_agent |-> AgentId(10), dependencies |-> {1}]>>]
LoopRegistries == {NoRegistry, ChainRegistry, CycleRegistry}

\* The outcomes of `git merge`: clean, the two failures, and a conflict in
\* any one to MaxConflictFiles of the files.
ConflictLists ==
    {Filter(FileOrder, S) :
        S \in {T \in SUBSET {FileOrder[i] : i \in 1..Len(FileOrder)} :
                  T # {} /\ Cardinality(T) <= MaxConflictFiles}}

MergeOutcomes ==
    {[kind |-> k, files |-> <<>>] : k \in {"clean", "error", "crash"}}
    \cup {[kind |-> "conflict", files |-> fs] : fs \in ConflictLists}

PlanOutcomes == {[kind |-> "clean", files |-> <<>>]}

NoTests == [present |-> {}, outcome |-> [k \in 1..4 |-> "pass"]]
TestEnv(exe, o) == [present |-> {exe}, outcome |-> [k \in 1..4 |-> o]]
LoopTestEnvs == {NoTests, TestEnv("python", "pass"), TestEnv("python", "fail")}
PlanTestEnvs == {NoTests}

\* Every branch changes README.md, so every pair of branches is predicted
\* to conflict.
SharedDiff(lines) ==
    [b \in {GetAgentBranches(lines)[i] : i \in 1..Len(GetAgentBranches(lines))}
        |-> [returncode |-> 0, files |-> <<"README.md">>]]

\* The state after SmartMerger(project) in a repository with the given
\* remote branches and task registry.
MergerStart(remotes, registries) ==
    /\ remote \in remotes
    /\ registry \in registries
    /\ ws = CleanWorkspace
    /\ strategy = "smart"
    /\ merge_log = <<>>
    /\ conflicts = <<>>
    /\ branches = <<>>
    /\ merge_order = <<>>
    /\ predicted = <<>>
    /\ merge_idx = 1
    /\ merged_count = 0
    /\ test_result = <<>>
    /\ report = <<>>
    /\ result = NoResult
    /\ merge_pc = "constructed"
    /\ attempts = <<>>
    /\ merge_calls = 1
    /\ rival_pc = "idle"
    /\ rival_merged = {}

MergerConstructed(remotes, registries) ==
    /\ MergerStart(remotes, registries)
    /\ diff_env = SharedDiff(remote)

\* The state after TaskDistributor(project).
DistributorStart(plans, pools) ==
    /\ task_plan \in plans
    /\ agents_csv \in pools
    /\ tasks = <<>>
    /\ agents = <<>>
    /\ sorted_tasks = <<>>
    /\ unassigned = <<>>
    /\ cursor = 1
    /\ dist_pc = "constructed"
    /\ registry_out = <<>>
    /\ summary_out = <<>>
    /\ instructions_out = <<>>
    /\ planner_tasks = <<>>
    /\ task_id_counter = 1
    /\ task_result = NoTask
    /\ estimate = NoEstimate
    /\ planner_pc = "parsing"
    /\ planner_calls = 1
    /\ clock = 1
    /\ msg_files = <<>>
    /\ sent = <<>>
    /\ inbox = <<>>

\* The project of that distributor: the registry was written by one launch
\* of as many agents as it has rows; nothing has read the status.
DistributorConstructed(plans, pools) ==
    /\ DistributorStart(plans, pools)
    /\ num_agents = Len(agents_csv)
    /\ worktrees = 1..Len(agents_csv)
    /\ launches = 0
    /\ agent_status = <<>>

\* execute_merge is called again on the same SmartMerger: its locals start
\* afresh; self.merge_log and self.conflicts, created by __init__, and the
\* report files written so far stay.  The remote may have changed.
ExecuteMergeAgain(remotes) ==
    /\ merge_pc = "done"
    /\ merge_calls < MaxCalls
    /\ merge_calls' = merge_calls + 1
    /\ remote' \in remotes
    /\ diff_env' = SharedDiff(remote')
    /\ branches' = <<>>
    /\ merge_order' = <<>>
    /\ predicted' = <<>>
    /\ merge_idx' = 1
    /\ merged_count' = 0
    /\ test_result' = <<>>
    /\ result' = NoResult
    /\ attempts' = <<>>
    /\ merge_pc' = "constructed"
    /\ UNCHANGED <<registry, ws, strategy, merge_log, conflicts, report>>
    /\ UNCHANGED <<varsD, varsR, varsP, varsC, varsX>>

(***************************************************************************)
(* A second execute_merge of the same project, run by another process on   *)
(* the same repository while the first may be running.  execute_merge      *)
(* takes no lock and checks for no other run.  The second run is followed  *)
(* through the steps that touch the shared workspace: the creation of its  *)
(* merge branch and its merges, all clean.                                 *)
(***************************************************************************)
RivalStart ==
    /\ rival_pc = "idle"
    /\ rival_pc' = IF GetAgentBranches(remote) = <<>> THEN "done" ELSE "creating"
    /\ UNCHANGED rival_merged
    /\ UNCHANGED <<varsD, varsM, varsP, varsC, varsX>>

\* _create_merge_branch of the second run: main is checked out and the
\* run's own merge branch is created from it and checked out.
RivalCreateMergeBranch ==
    /\ rival_pc = "creating"
    /\ rival_pc' = "merging"
    /\ ws' = [ws EXCEPT !.head = "rival", !.merged = {}]
    /\ UNCHANGED rival_merged
    /\ UNCHANGED <<varsEnv, strategy, merge_log, conflicts, branches,
                   merge_order, predicted, merge_idx, merged_count,
                   test_result, report, result, merge_pc, attempts,
                   merge_calls>>
    /\ UNCHANGED <<varsD, varsP, varsC, varsX>>

\* One iteration of the second run's merge loop, on whatever is checked out.
RivalMergeBranch ==
    /\ rival_pc = "merging"
    /\ LET todo == SortedBranches(GetAgentBranches(remote))
           k == Cardinality(rival_merged) + 1
           r == GitMerge(ws, todo[k], [kind |-> "clean", files |-> <<>>])
       IN /\ ws' = r.ws
          /\ rival_merged' = rival_merged \cup {todo[k]}
          /\ rival_pc' = IF k < Len(todo) THEN "merging" ELSE "done"
    /\ UNCHANGED <<varsEnv, strategy, merge_log, conflicts, branches,
                   merge_order, predicted, merge_idx, merged_count,
                   test_result, report, result, merge_pc, attempts,
                   merge_calls>>
    /\ UNCHANGED <<varsD, varsP, varsC, varsX>>

(***************************************************************************)
(*                               TaskPlanner                               *)
(* A description is a sequence of words.  KeywordsWithin gives, for each   *)
(* lower-case word of the explored vocabulary, the indicator keywords that *)
(* are substrings of it ("format" is one of "information"); no indicator   *)
(* holds a blank, so `keyword in desc_lower` is decided word by word.      *)
(***************************************************************************)
Words == {"Refactor", "REDESIGN", "design", "fix", "information", "page"}

\* str.lower() on a word.
LowerWord(w) ==
    CASE w = "Refactor" -> "refactor"
      [] w = "REDESIGN" -> "redesign"
      [] OTHER -> w

DescLower(description) ==
    [i \in 1..Len(description) |-> LowerWord(description[i])]

KeywordsWithin(w) ==
    CASE w = "refactor" -> {"refactor"}
      [] w = "redesign" -> {"design"}
      [] w = "design" -> {"design"}
      [] w = "fix" -> {"fix"}
      [] w = "information" -> {"format"}
      [] OTHER -> {}

\* word in desc_lower
KeywordIn(word, desc_lower) ==
    \E i \in 1..Len(desc_lower) : word \in KeywordsWithin(desc_lower[i])

HighIndicators ==
    {"refactor", "architect", "design", "optimize", "migration",
     "security", "performance", "scale", "distributed", "integration"}

LowIndicators ==
    {"fix", "update", "add", "remove", "rename", "move",
     "document", "comment", "typo", "format"}

\* A slip of the tie-break: high on equal counts.
EstimateComplexity_Tie(description) ==
    LET high_count == Cardinality({w \in HighIndicators : KeywordIn(w, DescLower(description))})
        low_count == Cardinality({w \in LowIndicators : KeywordIn(w, DescLower(description))})
    IN IF high_count >= low_count /\ high_count > 0 THEN "high"
       ELSE IF low_count > 0 THEN "low"
       ELSE "medium"

\* TaskPlanner._estimate_complexity
EstimateComplexity(description) ==
    LET high_count == Cardinality({w \in HighIndicators : KeywordIn(w, DescLower(description))})
        low_count == Cardinality({w \in LowIndicators : KeywordIn(w, DescLower(description))})
    IN IF high_count > low_count THEN "high"
       ELSE IF low_count > 0 THEN "low"
       ELSE "medium"

\* TaskPlanner._estimate_time: time_map.get(complexity, 60)
EstimateTime(complexity) ==
    CASE complexity = "low" -> 30
      [] complexity = "medium" -> 90
      [] complexity = "high" -> 180
      [] OTHER -> 60

\* The patterns of the Task fields: ^(a|b|c)$ matches exactly a, b and c.
ComplexityPattern == {"low", "medium", "high"}
PriorityPattern == {"low", "normal", "high"}
StatusPattern == {"pending", "in_progress", "completed", "blocked"}

ValidationError == [error |-> "ValidationError"]

\* A slip of the model: a complexity outside the pattern becomes the default.
TaskModel_Coerce(f) ==
    IF f.priority \in PriorityPattern /\ f.status \in StatusPattern
    THEN [f EXCEPT !.complexity = IF @ \in ComplexityPattern THEN @ ELSE "medium"]
    ELSE ValidationError

\* Task(**f): the validated task, or the validation error raised.
TaskModel(f) ==
    IF /\ f.complexity \in ComplexityPattern
       /\ f.priority \in PriorityPattern
       /\ f.status \in StatusPattern
    THEN f
    ELSE ValidationError

\* f"{n:04d}": at least four digits, padded with zeros.
ZeroPad(digits, width) ==
    [i \in 1..(width - Len(digits)) |-> 0] \o digits

\* A slip of the identifier: the counter is not part of it.
TaskId_NoCounter(n) == <<"TASK-", 0, 0, 0, 1>>

\* f"TASK-{self.task_id_counter:04d}"
TaskId(n) == <<"TASK-">> \o ZeroPad(Digits(n), 4)

\* The keyword arguments _add_task passes to Task; status and
\* assigned_agent take their defaults.  The Optional[str] complexity is
\* None or the one-element sequence holding the string.
AddTaskFields(counter, description, category, complexity, dependencies, priority) ==
    LET c == IF complexity = None THEN EstimateComplexity(description)
             ELSE complexity[1]
    IN [task_id |-> TaskId(counter), description |-> description,
        category |-> category, complexity |-> c,
        dependencies |-> dependencies, priority |-> priority,
        estimated_time |-> EstimateTime(c), assigned_agent |-> None,
        status |-> "pending"]

\* TaskPlanner._add_task(description, category, complexity, dependencies,
\* priority) while the list holds fewer than limit tasks; dependencies is
\* left to its default.
AddTask(descriptions, categories, complexities, priorities, limit) ==
    /\ planner_pc = "parsing"
    /\ Len(planner_tasks) < limit
    /\ \E description \in descriptions, category \in categories,
          complexity \in complexities, priority \in priorities :
        LET args == AddTaskFields(task_id_counter, description, category,
                                  complexity, <<>>, priority)
            task == TaskModel(args)
        IN /\ task_result' = [by |-> "_add_task", args |-> args, outcome |-> task]
           /\ IF task = ValidationError
              THEN UNCHANGED <<planner_tasks, task_id_counter>>
              ELSE /\ planner_tasks' = Append(planner_tasks, task)
                   /\ task_id_counter' = task_id_counter + 1
    /\ UNCHANGED <<estimate, planner_pc, planner_calls>>
    /\ UNCHANGED <<varsD, varsM, varsR, varsC, varsX>>

(***************************************************************************)
(* TaskPlanner._analyze_dependencies.  In the descriptions explored no     *)
(* word is part of another word, so `a in b` on two descriptions is the    *)
(* test that the words of a occur in b side by side.                       *)
(***************************************************************************)
\* a in b, on two lowered descriptions.
Contains(b, a) ==
    \E k \in 0..(Len(b) - Len(a)) : \A n \in 1..Len(a) : b[k + n] = a[n]

\* 'after' in desc_lower or 'depends on' in desc_lower
MentionsDependency(desc_lower) ==
    \/ Contains(desc_lower, <<"after">>)
    \/ Contains(desc_lower, <<"depends", "on">>)

\* The task ids of the tasks at the positions of S, in list order, from
\* position k on.
RECURSIVE IdsAt(_, _, _)
IdsAt(ts, S, k) ==
    IF k > Len(ts) THEN <<>>
    ELSE (IF k \in S THEN <<ts[k].task_id>> ELSE <<>>) \o IdsAt(ts, S, k + 1)

\* The ids the explicit scan appends to the dependencies of task i.
ExplicitDependencies(ts, i) ==
    IF MentionsDependency(DescLower(ts[i].description))
    THEN IdsAt(ts, {j \in 1..Len(ts) :
                      /\ i # j
                      /\ Contains(DescLower(ts[i].description),
                                  DescLower(ts[j].description))}, 1)
    ELSE <<>>

\* impl_tasks of task i.
ImplTasks(ts, i) ==
    IdsAt(ts, {j \in 1..Len(ts) :
                 /\ ts[j].category \in {"feature", "implementation"}
                 /\ ts[j].task_id # ts[i].task_id}, 1)

\* q[:n]
Prefix(q, n) == SubSeq(q, 1, IF Len(q) < n THEN Len(q) ELSE n)

\* A slip of the implicit rule: every testing task gets the synthetic
\* dependencies, whatever the scan found.
ImplicitDependencies_Always(ts, i, deps) ==
    IF ts[i].category = "testing" THEN Prefix(ImplTasks(ts, i), 2) ELSE <<>>

\* The ids the implicit rule appends to task i, whose dependencies after
\* the explicit scan are deps.
ImplicitDependencies(ts, i, deps) ==
    IF ts[i].category = "testing" /\ deps = <<>>
    THEN Prefix(ImplTasks(ts, i), 2)
    ELSE <<>>

\* The dependencies of task i after its iteration of the loop.  An
\* iteration changes the dependencies of its own task only, and reads the
\* description, category and id of the others.
AnalyzedDependencies(ts, i) ==
    LET scanned == ts[i].dependencies \o ExplicitDependencies(ts, i)
    IN scanned \o ImplicitDependencies(ts, i, scanned)

PlannerAnalyzeDependencies ==
    /\ planner_pc = "parsing"
    /\ planner_tasks' =
          [i \in 1..Len(planner_tasks) |->
              [planner_tasks[i] EXCEPT
                  !.dependencies = AnalyzedDependencies(planner_tasks, i)]]
    /\ planner_pc' = "analyzed"
    /\ UNCHANGED <<task_id_counter, task_result, estimate, planner_calls>>
    /\ UNCHANGED <<varsD, varsM, varsR, varsC, varsX>>

(***************************************************************************)
(* _parse_json_requirements on a list of objects: each item gives its      *)
(* description and category and may give its dependencies; complexity      *)
(* defaults to 'medium'.  The dependency lists explored name at most one   *)
(* task, added before the item: no self-reference and no duplicate.        *)
(***************************************************************************)
InputDependencies(counter) ==
    {<<>>} \cup {<<TaskId(k)>> : k \in 1..(counter - 1)}

AddJsonTask(descriptions, categories, limit) ==
    /\ planner_pc = "parsing"
    /\ Len(planner_tasks) < limit
    /\ \E description \in descriptions, category \in categories,
          dependencies \in InputDependencies(task_id_counter) :
        LET args == AddTaskFields(task_id_counter, description, category,
                                  <<"medium">>, dependencies, "normal")
            task == TaskModel(args)
        IN /\ task_result' = [by |-> "_add_task", args |-> args, outcome |-> task]
           /\ planner_tasks' = Append(planner_tasks, task)
           /\ task_id_counter' = task_id_counter + 1
    /\ UNCHANGED <<estimate, planner_pc, planner_calls>>
    /\ UNCHANGED <<varsD, varsM, varsR, varsC, varsX>>

\* analyze_requirements called again on the same TaskPlanner: self.tasks
\* and self.task_id_counter are as the call before left them.
AnalyzeRequirementsAgain ==
    /\ planner_pc = "saved"
    /\ planner_calls < MaxPlannerCalls
    /\ planner_calls' = planner_calls + 1
    /\ planner_pc' = "parsing"
    /\ UNCHANGED <<planner_tasks, task_id_counter, task_result, estimate>>
    /\ UNCHANGED <<varsD, varsM, varsR, varsC, varsX>>

(***************************************************************************)
(* TaskPlanner._optimize_task_order: a stable sort of self.tasks.          *)
(***************************************************************************)
ComplexityOrder(complexity) ==
    CASE complexity = "high" -> 0
      [] complexity = "medium" -> 1
      [] complexity = "low" -> 2

PlannerSortKey(t) ==
    <<Len(t.dependencies), PriorityOrder(t.priority),
      ComplexityOrder(t.complexity)>>

PlannerPrecedes(ts, i, j) ==
    \/ KeyLess(PlannerSortKey(ts[i]), PlannerSortKey(ts[j]))
    \/ PlannerSortKey(ts[i]) = PlannerSortKey(ts[j]) /\ i < j

OptimizedOrder(ts) ==
    [k \in 1..Len(ts) |->
        ts[CHOOSE i \in 1..Len(ts) :
              Cardinality({j \in 1..Len(ts) : PlannerPrecedes(ts, j, i)}) = k - 1]]

OptimizeTaskOrder ==
    /\ planner_pc = "analyzed"
    /\ planner_tasks' = OptimizedOrder(planner_tasks)
    /\ planner_pc' = "ordered"
    /\ UNCHANGED <<task_id_counter, task_result, estimate, planner_calls>>
    /\ UNCHANGED <<varsD, varsM, varsR, varsC, varsX>>

(***************************************************************************)
(* _create_task_plan and _save_task_plan: tasks/task_plan.json holds the   *)
(* tasks of self.tasks in list order.                                      *)
(***************************************************************************)
TaskPlanOf(ts) ==
    [i \in 1..Len(ts) |->
        [task_id |-> ts[i].task_id,
         kind |-> [complexity |-> ts[i].complexity,
                   priority |-> ts[i].priority,
                   estimated_time |-> ts[i].estimated_time],
         dependencies |-> Range(ts[i].dependencies)]]

SaveTaskPlan ==
    /\ planner_pc = "ordered"
    /\ task_plan' = TaskPlanOf(planner_tasks)
    /\ planner_pc' = "saved"
    /\ UNCHANGED <<planner_tasks, task_id_counter, task_result, estimate,
                   planner_calls>>
    /\ UNCHANGED <<agents_csv, tasks, agents, sorted_tasks, unassigned, cursor,
                   dist_pc, registry_out, summary_out, instructions_out>>
    /\ UNCHANGED <<varsM, varsR, varsC, varsX>>

\* Task(...) constructed directly, as the tests do.
ConstructTask(inputs) ==
    /\ \E f \in inputs :
        task_result' = [by |-> "Task", args |-> f, outcome |-> TaskModel(f)]
    /\ UNCHANGED <<planner_tasks, task_id_counter, estimate, planner_pc,
                   planner_calls>>
    /\ UNCHANGED <<varsD, varsM, varsR, varsC, varsX>>

\* planner._estimate_complexity(description), called directly.
EstimateComplexityCall(descriptions) ==
    /\ \E description \in descriptions :
        estimate' = [fn |-> "complexity", input |-> description,
                     output |-> EstimateComplexity(description)]
    /\ UNCHANGED <<planner_tasks, task_id_counter, task_result, planner_pc,
                   planner_calls>>
    /\ UNCHANGED <<varsD, varsM, varsR, varsC, varsX>>

\* planner._estimate_time(complexity), called directly.
EstimateTimeCall(complexities) ==
    /\ \E complexity \in complexities :
        estimate' = [fn |-> "time", input |-> complexity,
                     output |-> EstimateTime(complexity)]
    /\ UNCHANGED <<planner_tasks, task_id_counter, task_result, planner_pc,
                   planner_calls>>
    /\ UNCHANGED <<varsD, varsM, varsR, varsC, varsX>>

(***************************************************************************)
(* SwarmCoordinator.launch_swarm on an initialized project.                *)
(* _create_worktrees handles the agents 1..num_agents in turn.             *)
(* create_worktree returns False when git refuses (it always refuses a     *)
(* path that already holds a worktree) and its result is not looked at;    *)
(* the next statement, the mkdir of <worktree>/.swarm, raises when the     *)
(* worktree directory does not exist and ends the launch; otherwise        *)
(* _update_agent_registry appends the agent's row to agents.csv.  After    *)
(* the loop a new TaskDistributor runs distribute_tasks.                   *)
(***************************************************************************)
WorktreeOutcomes == {"created", "refused"}

\* The first agent at which the loop raises under the git outcomes o, or
\* n + 1 if it handles every agent.
LoopEnd(o, existing, n) ==
    IF \E i \in 1..n : i \notin existing /\ o[i] = "refused"
    THEN CHOOSE i \in 1..n :
            /\ i \notin existing /\ o[i] = "refused"
            /\ \A j \in 1..(i - 1) : j \in existing \/ o[j] = "created"
    ELSE n + 1

\* _update_agent_registry, once for each of the agents 1..k.
RegistryAfter(rows, k) == rows \o [i \in 1..k |-> AgentId(i)]

LaunchSwarm ==
    /\ launches < MaxLaunches
    /\ dist_pc \in {"constructed", "done", "failed"}
    /\ launches' = launches + 1
    /\ \E o \in [1..num_agents -> WorktreeOutcomes] :
        LET k == LoopEnd(o, worktrees, num_agents) - 1
        IN /\ agents_csv' = RegistryAfter(agents_csv, k)
           /\ worktrees' = worktrees \cup (1..k)
           /\ IF k = num_agents
              THEN /\ tasks' = <<>>
                   /\ agents' = <<>>
                   /\ sorted_tasks' = <<>>
                   /\ unassigned' = <<>>
                   /\ cursor' = 1
                   /\ dist_pc' = "constructed"
              ELSE UNCHANGED <<tasks, agents, sorted_tasks, unassigned, cursor,
                               dist_pc>>
    /\ UNCHANGED <<task_plan, registry_out, summary_out, instructions_out,
                   num_agents, agent_status>>
    /\ UNCHANGED <<varsM, varsR, varsP, varsX>>

(***************************************************************************)
(* SwarmDashboard._get_agent_status: one entry per row of agents.csv.      *)
(* The two git commands of a row end with status 0 and a usable output,    *)
(* with another status, or not at all (subprocess.run raises); the count   *)
(* may also end with status 0 and no number, which makes int() raise.      *)
(***************************************************************************)
CountLookups == {"3", "nonzero", "not_a_number", "raises"}
LogLookups == {"2 hours ago", "nonzero", "raises"}

\* int(result.stdout.strip()) if result.returncode == 0 else 0
CommitsOf(count) ==
    CASE count = "3" -> 3
      [] count = "nonzero" -> 0

\* A slip of the handler: a lookup that raised leaves an empty field.
AgentEntry_NoPlaceholder(id, count, log) ==
    IF count \in {"not_a_number", "raises"} \/ log = "raises"
    THEN [agent_id |-> id, commits |-> 0, last_commit |-> "",
          count_lookup |-> count, log_lookup |-> log]
    ELSE [agent_id |-> id,
          commits |-> CommitsOf(count),
          last_commit |-> IF log = "nonzero" THEN "Never" ELSE log,
          count_lookup |-> count, log_lookup |-> log]

\* The entry of one row: the try block and its except clause.
AgentEntry(id, count, log) ==
    IF count \in {"not_a_number", "raises"} \/ log = "raises"
    THEN [agent_id |-> id, commits |-> 0, last_commit |-> "Unknown",
          count_lookup |-> count, log_lookup |-> log]
    ELSE [agent_id |-> id,
          commits |-> CommitsOf(count),
          last_commit |-> IF log = "nonzero" THEN "Never" ELSE log,
          count_lookup |-> count, log_lookup |-> log]

GetAgentStatus ==
    /\ \E counts \in [1..Len(agents_csv) -> CountLookups],
          logs \in [1..Len(agents_csv) -> LogLookups] :
        agent_status' = [i \in 1..Len(agents_csv) |->
                            AgentEntry(agents_csv[i], counts[i], logs[i])]
    /\ UNCHANGED <<num_agents, worktrees, launches>>
    /\ UNCHANGED <<varsD, varsM, varsR, varsP, varsX>>

(***************************************************************************)
(* CommunicationCoordinator: send_message, get_messages and                *)
(* mark_message_read over the files messages/MSG-*.json.  A message is     *)
(* stored in the file named by its id; created_at is the moment of the     *)
(* call, which differs from call to call.                                  *)
(***************************************************************************)
\* f"MSG-{int(time.time())}-{from_agent}-{to_agent}"
MsgId(t, from_agent, to_agent) == <<"MSG", t, from_agent, to_agent>>

\* Message(id=..., from_agent=..., ...): status and created_at by default.
NewMessage(id, from_agent, to_agent, body, now) ==
    [id |-> id, from_agent |-> from_agent, to_agent |-> to_agent,
     body |-> body, status |-> "unread", created_at |-> now]

\* open(msg_file, 'w') and json.dump: the file of that name holds message.
WriteMessage(files, message) == (message.id :> message) @@ files

SendMessage(senders, recipients, bodies) ==
    /\ Len(sent) < MaxMessages
    /\ \E from_agent \in senders, to_agent \in recipients, body \in bodies :
        LET message == NewMessage(MsgId(clock, from_agent, to_agent),
                                  from_agent, to_agent, body, Len(sent) + 1)
        IN /\ msg_files' = WriteMessage(msg_files, message)
           /\ sent' = Append(sent, [message |-> message, marked |-> FALSE])
    /\ UNCHANGED <<clock, inbox>>
    /\ UNCHANGED <<varsD, varsM, varsR, varsP, varsC>>

\* A second passes.
Tick ==
    /\ clock < MaxClock
    /\ clock' = clock + 1
    /\ UNCHANGED <<msg_files, sent, inbox>>
    /\ UNCHANGED <<varsD, varsM, varsR, varsP, varsC>>

\* The messages get_messages(agent_id, status) returns, by created_at.
GetMessages(files, agent_id, status) ==
    LET found == {files[id] : id \in {i \in DOMAIN files :
                                        /\ files[i].to_agent = agent_id
                                        /\ files[i].status = status}}
    IN [k \in 1..Cardinality(found) |->
          CHOOSE m \in found :
              Cardinality({n \in found : n.created_at < m.created_at}) = k - 1]

GetMessagesCall(agent_ids, statuses) ==
    /\ \E agent_id \in agent_ids, status \in statuses :
        inbox' = [agent_id |-> agent_id, status |-> status,
                  messages |-> GetMessages(msg_files, agent_id, status)]
    /\ UNCHANGED <<clock, msg_files, sent>>
    /\ UNCHANGED <<varsD, varsM, varsR, varsP, varsC>>

\* mark_message_read(msg_id) on a stored message; the history notes the
\* sends of that id as marked.
MarkMessageRead ==
    /\ \E msg_id \in DOMAIN msg_files :
        /\ msg_files' = [msg_files EXCEPT ![msg_id].status = "read"]
        /\ sent' = [k \in 1..Len(sent) |->
                      IF sent[k].message.id = msg_id
                      THEN [sent[k] EXCEPT !.marked = TRUE] ELSE sent[k]]
    /\ UNCHANGED <<clock, inbox>>
    /\ UNCHANGED <<varsD, varsM, varsR, varsP, varsC>>

MessageAgents == {AgentId(1), AgentId(2)}

InitMessages ==
    /\ DistributorConstructed({<<>>}, {<<>>})
    /\ MergerConstructed({<<MainLine>>}, {NoRegistry})

NextMessages ==
    \/ SendMessage(MessageAgents, MessageAgents, {"ping", "pong"})
    \/ Tick
    \/ GetMessagesCall(MessageAgents, {"unread", "read"})
    \/ MarkMessageRead

SpecMessages == InitMessages /\ [][NextMessages]_vars

(***************************************************************************)
(* SpecReplan: analyze_requirements called up to MaxPlannerCalls times on  *)
(* one TaskPlanner, over JSON requirements of at most MaxReplanTasks       *)
(* tasks in all.                                                           *)
(***************************************************************************)
ReplanDescriptions == {<<"login">>, <<"test", "after", "login">>}

InitReplan ==
    /\ DistributorConstructed({<<>>}, {<<>>})
    /\ MergerConstructed({<<MainLine>>}, {NoRegistry})

NextReplan ==
    \/ AddJsonTask(ReplanDescriptions, {"general", "feature", "testing"},
                   MaxReplanTasks)
    \/ PlannerAnalyzeDependencies
    \/ OptimizeTaskOrder
    \/ SaveTaskPlan
    \/ AnalyzeRequirementsAgain

SpecReplan == InitReplan /\ [][NextReplan]_vars

(***************************************************************************)
(* The distributor's specification: a freshly constructed TaskDistributor  *)
(* over any task plan of at most MaxTasks tasks and any agent registry of  *)
(* at most MaxAgents agents.  The merger does not run.                     *)
(***************************************************************************)
InitDist ==
    /\ DistributorConstructed(
          UNION {TaskPlans(n) : n \in 0..MaxTasks},
          {[i \in 1..m |-> AgentId(i)] : m \in 0..MaxAgents})
    /\ MergerConstructed({<<MainLine>>}, {NoRegistry})

NextDist ==
    \/ DistributeTasks
    \/ FirstPassStep
    \/ SecondPassStep
    \/ SaveDistribution

SpecDist == InitDist /\ [][NextDist]_vars

(***************************************************************************)
(* SpecRepeat: distribute_tasks called up to MaxDistCalls times on one     *)
(* TaskDistributor, with the task plan and the agent registry unchanged.   *)
(* A call after the first starts from the object as the call before left   *)
(* it: _load_task_plan replaces self.tasks, _load_agents appends to        *)
(* self.agents, and unassigned is a new local list.                        *)
(***************************************************************************)
DistributeTasksAgain ==
    /\ dist_pc = "done"
    /\ Len(agents) < MaxDistCalls * Len(agents_csv)
    /\ tasks' = PlanTasks(task_plan)
    /\ agents' = LoadedAgents(agents, agents_csv)
    /\ dist_pc' = "first_pass"
    /\ sorted_tasks' = SortedTasks(tasks')
    /\ cursor' = 1
    /\ unassigned' = <<>>
    /\ UNCHANGED <<task_plan, agents_csv, registry_out, summary_out,
                   instructions_out>>
    /\ UNCHANGED <<varsM, varsR, varsP, varsC, varsX>>

InitRepeat ==
    /\ DistributorConstructed(
          UNION {TaskPlans(n) : n \in 0..MaxSaveTasks},
          {[i \in 1..m |-> AgentId(i)] : m \in 0..MaxAgents})
    /\ MergerConstructed({<<MainLine>>}, {NoRegistry})

NextRepeat ==
    \/ DistributeTasks
    \/ FirstPassStep
    \/ SecondPassStep
    \/ SaveDistribution
    \/ DistributeTasksAgain

SpecRepeat == InitRepeat /\ [][NextRepeat]_vars

(***************************************************************************)
(* SpecSave: the same distribution with its outputs written file by file,  *)
(* over plans of at most MaxSaveTasks tasks.                               *)
(***************************************************************************)
InitSave ==
    /\ DistributorConstructed(
          UNION {TaskPlans(n) : n \in 0..MaxSaveTasks},
          {[i \in 1..m |-> AgentId(i)] : m \in 0..MaxAgents})
    /\ MergerConstructed({<<MainLine>>}, {NoRegistry})

NextSave ==
    \/ DistributeTasks
    \/ FirstPassStep
    \/ SecondPassStep
    \/ GenerateAgentInstructions
    \/ WriteRegistry
    \/ WriteSummary

SpecSave == InitSave /\ [][NextSave]_vars

(***************************************************************************)
(* The merger's specifications: a freshly constructed SmartMerger and one  *)
(* execute_merge.  The distributor does not run.                           *)
(*   SpecMerge explores the merge loop: every outcome of every attempt,    *)
(*     over at most MaxMergeBranches branches listed in any order;         *)
(*   SpecPlan explores the order planning: every task registry of at most  *)
(*     MaxRegistryTasks rows over at most MaxPlanBranches branches.        *)
(***************************************************************************)
InitMerge ==
    /\ DistributorConstructed({<<>>}, {<<>>})
    /\ MergerConstructed(Remotes(MaxMergeBranches), LoopRegistries)

NextMerge ==
    \/ Discover(Strategies)
    \/ Plan
    \/ Predict
    \/ CreateMergeBranch
    \/ MergeBranchStep(MergeOutcomes)
    \/ Validate(LoopTestEnvs)
    \/ Report

SpecMerge == InitMerge /\ [][NextMerge]_vars

InitPlan ==
    /\ DistributorConstructed({<<>>}, {<<>>})
    /\ MergerConstructed(RemotesSorted(MaxPlanBranches),
          {NoRegistry} \cup UNION {Registries(n) : n \in 0..MaxRegistryTasks})

NextPlan ==
    \/ Discover({"smart"})
    \/ Plan
    \/ Predict
    \/ CreateMergeBranch
    \/ MergeBranchStep(PlanOutcomes)
    \/ Validate(PlanTestEnvs)
    \/ Report

SpecPlan == InitPlan /\ [][NextPlan]_vars

(***************************************************************************)
(* SpecAgain: execute_merge called up to MaxCalls times on one SmartMerger *)
(* over a remote of at most one agent branch that may change between the  *)
(* calls, with every kind of merge outcome and with test commands that     *)
(* pass, fail or run into the timeout.                                     *)
(***************************************************************************)
AgainOutcomes ==
    {[kind |-> "clean", files |-> <<>>],
     [kind |-> "error", files |-> <<>>],
     [kind |-> "conflict", files |-> <<FileMd>>],
     [kind |-> "conflict", files |-> <<FilePy>>]}

\* subprocess.run(cmd, timeout=300) raises TimeoutExpired: outcome "timeout".
AgainTestEnvs ==
    {NoTests,
     TestEnv("python", "pass"),
     TestEnv("python", "timeout"),
     [present |-> {"npm", "python"},
      outcome |-> <<"timeout", "fail", "pass", "pass">>]}

InitAgain ==
    /\ DistributorConstructed({<<>>}, {<<>>})
    /\ MergerConstructed(Remotes(1), {NoRegistry})

NextAgain ==
    \/ Discover({"sequential"})
    \/ Plan
    \/ Predict
    \/ CreateMergeBranch
    \/ MergeBranchStep(AgainOutcomes)
    \/ Validate(AgainTestEnvs)
    \/ Report
    \/ ExecuteMergeAgain(Remotes(1))

SpecAgain == InitAgain /\ [][NextAgain]_vars

(***************************************************************************)
(* SpecRace: one execute_merge and a second one of the same project in     *)
(* another process, interleaved step by step on the one repository.        *)
(***************************************************************************)
RaceOutcomes ==
    {[kind |-> "clean", files |-> <<>>],
     [kind |-> "conflict", files |-> <<FilePy>>]}

InitRace ==
    /\ DistributorConstructed({<<>>}, {<<>>})
    /\ MergerConstructed(RemotesSorted(MaxMergeBranches), {NoRegistry})

NextRace ==
    \/ Discover({"sequential"})
    \/ Plan
    \/ Predict
    \/ CreateMergeBranch
    \/ MergeBranchStep(RaceOutcomes)
    \/ Validate(PlanTestEnvs)
    \/ Report
    \/ RivalStart
    \/ RivalCreateMergeBranch
    \/ RivalMergeBranch

SpecRace == InitRace /\ [][NextRace]_vars

(***************************************************************************)
(* The planner's specifications: a freshly constructed TaskPlanner.        *)
(*   SpecEstimate: the two estimators called directly, on every            *)
(*     description of at most MaxWords words and every complexity, before  *)
(*     and after one _add_task with the complexity estimated or given;     *)
(*   SpecPlanner: up to MaxPlannerTasks _add_task calls and direct Task    *)
(*     constructions with values inside and outside the enumerated sets.   *)
(***************************************************************************)
Descriptions(n) == UNION {[1..k -> Words] : k \in 0..n}

TaskDescriptions == {<<"fix", "page">>, <<"Refactor", "page">>, <<"page">>}

InitPlanner ==
    /\ DistributorConstructed({<<>>}, {<<>>})
    /\ MergerConstructed({<<MainLine>>}, {NoRegistry})

TimeInputs == ComplexityPattern \cup {"unknown", "HIGH"}

NextEstimate ==
    \/ AddTask(TaskDescriptions, {"general"},
               {None} \cup {<<c>> : c \in ComplexityPattern}, {"normal"}, 1)
    \/ EstimateComplexityCall(Descriptions(MaxWords))
    \/ EstimateTimeCall(TimeInputs)

SpecEstimate == InitPlanner /\ [][NextEstimate]_vars

ComplexityInputs == {"low", "high", "invalid", "HIGH"}
PriorityInputs == {"normal", "high", "urgent"}
StatusInputs == {"pending", "blocked", "done"}

TaskInputs ==
    {[task_id |-> TaskId(1), description |-> <<"page">>, category |-> "general",
      complexity |-> c, dependencies |-> <<>>, priority |-> p,
      estimated_time |-> 60, assigned_agent |-> None, status |-> st] :
        c \in ComplexityInputs, p \in PriorityInputs,
        st \in StatusInputs}

NextPlanner ==
    \/ AddTask(TaskDescriptions, {"general"},
               {None} \cup {<<c>> : c \in ComplexityInputs},
               PriorityInputs, MaxPlannerTasks)
    \/ ConstructTask(TaskInputs)

SpecPlanner == InitPlanner /\ [][NextPlanner]_vars

(***************************************************************************)
(* SpecPipeline: analyze_requirements over up to MaxPipelineTasks          *)
(* discovered tasks, followed by distribute_tasks over a pool of           *)
(* MaxAgents agents once the plan is saved.                                *)
(***************************************************************************)
PipelineDescriptions ==
    {<<"login">>, <<"page">>, <<"test", "after", "login">>}

PipelineCategories == {"feature", "implementation", "testing", "general"}

\* distribute_tasks run after analyze_requirements has returned.
DistributeSavedPlan == planner_pc = "saved" /\ DistributeTasks

InitPipeline ==
    /\ DistributorConstructed({<<>>}, {[i \in 1..MaxAgents |-> AgentId(i)]})
    /\ MergerConstructed({<<MainLine>>}, {NoRegistry})

NextPipeline ==
    \/ AddTask(PipelineDescriptions, PipelineCategories, {None},
               {"normal", "high"}, MaxPipelineTasks)
    \/ PlannerAnalyzeDependencies
    \/ OptimizeTaskOrder
    \/ SaveTaskPlan
    \/ DistributeSavedPlan
    \/ FirstPassStep
    \/ SecondPassStep
    \/ SaveDistribution

SpecPipeline == InitPipeline /\ [][NextPipeline]_vars

(***************************************************************************)
(* SpecAnalyze: the post-processing of analyze_requirements over up to     *)
(* MaxAnalyzeTasks discovered tasks.                                       *)
(***************************************************************************)
NextAnalyze ==
    \/ AddTask(PipelineDescriptions, PipelineCategories, {None}, {"normal"},
               MaxAnalyzeTasks)
    \/ PlannerAnalyzeDependencies
    \/ OptimizeTaskOrder

SpecAnalyze == InitPipeline /\ [][NextAnalyze]_vars

(***************************************************************************)
(* SpecLaunch: up to MaxLaunches launch_swarm calls on a project           *)
(* initialized for 1..MaxAgents agents with a plan of MaxSaveTasks tasks,  *)
(* each followed by its distribution.                                      *)
(***************************************************************************)
InitLaunch ==
    /\ DistributorStart(TaskPlans(MaxSaveTasks), {<<>>})
    /\ num_agents \in 1..MaxAgents
    /\ worktrees = {}
    /\ launches = 0
    /\ agent_status = <<>>
    /\ MergerConstructed({<<MainLine>>}, {NoRegistry})

NextLaunch ==
    \/ LaunchSwarm
    \/ DistributeTasks
    \/ FirstPassStep
    \/ SecondPassStep
    \/ SaveDistribution

SpecLaunch == InitLaunch /\ [][NextLaunch]_vars

(***************************************************************************)
(* SpecStatus: status reads of a project of up to MaxAgents agents under   *)
(* every outcome of the two lookups of each agent.                         *)
(***************************************************************************)
InitStatus ==
    /\ DistributorConstructed({<<>>},
                              {[i \in 1..m |-> AgentId(i)] : m \in 0..MaxAgents})
    /\ MergerConstructed({<<MainLine>>}, {NoRegistry})

NextStatus ==
    \/ GetAgentStatus

SpecStatus == InitStatus /\ [][NextStatus]_vars

(***************************************************************************)
(* SpecStuck: the merge loop over MaxMergeBranches branches whose merges   *)
(* are clean or conflict, with a `git merge --abort` that works or fails.  *)
(***************************************************************************)
StuckOutcomes ==
    {[kind |-> "clean", files |-> <<>>, abort |-> "ok"]}
    \cup {[kind |-> "conflict", files |-> fs, abort |-> a] :
             fs \in {<<FileMd>>, <<FilePy>>}, a \in {"ok", "fails"}}

InitStuck ==
    /\ DistributorConstructed({<<>>}, {<<>>})
    /\ MergerConstructed(RemotesSorted(MaxMergeBranches), {NoRegistry})

NextStuck ==
    \/ Discover({"sequential"})
    \/ Plan
    \/ Predict
    \/ CreateMergeBranch
    \/ MergeBranchStep(StuckOutcomes)
    \/ Validate({NoTests})
    \/ Report

SpecStuck == InitStuck /\ [][NextStuck]_vars

(***************************************************************************)
(* SpecPredict: one execute_merge over at most MaxDiffBranches branches,   *)
(* each of which changed any of three files and whose `git diff` either    *)
(* prints them or fails.                                                   *)
(***************************************************************************)
DiffFiles == <<"README.md", "app.py", "data.json">>

DiffOutputs ==
    {[returncode |-> rc, files |-> Filter(DiffFiles, S)] :
        rc \in {0, 1}, S \in SUBSET {DiffFiles[i] : i \in 1..Len(DiffFiles)}}

Diffs(lines) ==
    [{GetAgentBranches(lines)[i] : i \in 1..Len(GetAgentBranches(lines))}
        -> DiffOutputs]

InitPredict ==
    /\ DistributorConstructed({<<>>}, {<<>>})
    /\ MergerStart(RemotesSorted(MaxDiffBranches), {NoRegistry})
    /\ diff_env \in Diffs(remote)

NextPredict ==
    \/ Discover({"sequential"})
    \/ Plan
    \/ Predict
    \/ CreateMergeBranch
    \/ MergeBranchStep(PlanOutcomes)
    \/ Validate(PlanTestEnvs)
    \/ Report

SpecPredict == InitPredict /\ [][NextPredict]_vars

(***************************************************************************)
(* SpecDiag: one execute_merge over MaxMergeBranches branches under either *)
(* strategy, with every `git diff` output for the prediction and merges    *)
(* that are clean or conflict.                                             *)
(***************************************************************************)
DiagOutcomes ==
    {[kind |-> "clean", files |-> <<>>],
     [kind |-> "conflict", files |-> <<FileMd>>],
     [kind |-> "conflict", files |-> <<FilePy>>]}

InitDiag ==
    /\ DistributorConstructed({<<>>}, {<<>>})
    /\ MergerStart(RemotesSorted(MaxMergeBranches), {NoRegistry})
    /\ diff_env \in Diffs(remote)

NextDiag ==
    \/ Discover(Strategies)
    \/ Plan
    \/ Predict
    \/ CreateMergeBranch
    \/ MergeBranchStep(DiagOutcomes)
    \/ Validate({NoTests})
    \/ Report

SpecDiag == InitDiag /\ [][NextDiag]_vars

(***************************************************************************)
(* Properties of the distributor.                                          *)
(***************************************************************************)
\* How often task id `id` occurs in the assigned_tasks lists of all agents.
TaskOccurrences(id) ==
    SumSeq([a \in 1..Len(agents) |-> Count(agents[a].assigned_tasks, id)])

\* C1: when _assign_tasks has finished, every task has a non-null
\* assigned_agent naming an agent of the pool, and every task id occurs in
\* the agents' assigned_tasks lists exactly once in total.
C1_ExhaustiveAssignment ==
    dist_pc \in {"assigned", "done"} =>
        \A i \in 1..Len(tasks) :
            /\ tasks[i].assigned_agent # None
            /\ \E a \in 1..Len(agents) :
                    agents[a].agent_id = tasks[i].assigned_agent
            /\ TaskOccurrences(tasks[i].task_id) = 1

\* A distribution of three tasks over two agents that needed both passes.
C1_Witness ==
    /\ dist_pc = "assigned"
    /\ Len(tasks) = 3
    /\ Len(agents) = 2
    /\ unassigned # <<>>
    /\ \A a \in 1..Len(agents) : agents[a].assigned_tasks # <<>>

TimeOf(id) == FindTask(tasks, id)[1].estimated_time
WeightOf(id) ==
    LET c == FindTask(tasks, id)[1].complexity
    IN CASE c = "low" -> 1 [] c = "medium" -> 3 [] c = "high" -> 5

\* C2: in every state of a distribution (so after each single assignment of
\* the first or the second pass, and at the end) each agent's total_time is
\* the sum of estimated_time, and its complexity_score the sum of the weights
\* low=1, medium=3, high=5, over the tasks of its assigned_tasks.
C2_LoadSums ==
    \A a \in 1..Len(agents) :
        LET ids == agents[a].assigned_tasks
        IN /\ agents[a].total_time =
                 SumSeq([k \in 1..Len(ids) |-> TimeOf(ids[k])])
           /\ agents[a].complexity_score =
                 SumSeq([k \in 1..Len(ids) |-> WeightOf(ids[k])])

\* In the middle of the second pass, after a forced assignment, an agent
\* holds tasks of different complexity.
C2_Witness ==
    /\ dist_pc = "second_pass"
    /\ cursor > 1
    /\ \E a \in 1..Len(agents) :
        \E j, k \in 1..Len(agents[a].assigned_tasks) :
            WeightOf(agents[a].assigned_tasks[j])
                # WeightOf(agents[a].assigned_tasks[k])

(***************************************************************************)
(* Properties of the merger.                                               *)
(***************************************************************************)
InSeq(q, x) == \E i \in 1..Len(q) : q[i] = x
PosIn(q, x) == CHOOSE i \in 1..Len(q) : q[i] = x /\ \A j \in 1..(i - 1) : q[j] # x

\* The order planning of execute_merge has run and returned.
Planned == merge_pc \notin {"constructed", "planning"} /\ branches # <<>>

\* The merge loop attempts the branches of merge_order, in that order.
LoopFollowsOrder ==
    /\ Len(attempts) <= Len(merge_order)
    /\ \A i \in 1..Len(attempts) : attempts[i].branch = merge_order[i]

\* Agent y has a task that depends on a task of another agent x, by the
\* rows of the task registry.
DependsAcross(x, y) ==
    /\ x # y
    /\ \E i, j \in 1..Len(registry.rows) :
        /\ registry.rows[i].assigned_agent = x
        /\ registry.rows[j].assigned_agent = y
        /\ registry.rows[i].task_id \in registry.rows[j].dependencies

RegistryAgentsUsed ==
    {registry.rows[i].assigned_agent : i \in 1..Len(registry.rows)} \ {None}

\* The agents reached from the agents of S in at most n steps of DependsAcross.
RECURSIVE ReachedFrom(_, _)
ReachedFrom(S, n) ==
    IF n = 0 THEN S
    ELSE ReachedFrom(S \cup {y \in RegistryAgentsUsed :
                                \E x \in S : DependsAcross(x, y)}, n - 1)

AgentGraphCyclic ==
    \E x \in RegistryAgentsUsed :
        x \in ReachedFrom({y \in RegistryAgentsUsed : DependsAcross(x, y)},
                          Cardinality(RegistryAgentsUsed))

BranchOf(x) == BranchName(x[2])

\* C3: under the smart strategy with an acyclic agent-level graph, whenever a
\* task of agent y depends on a task of another agent x and both agents'
\* branches are among the discovered ones, x's branch precedes y's branch in
\* merge_order, the order the merge loop follows.
C3_TopologicalRespect ==
    (Planned /\ strategy = "smart" /\ registry.exists /\ ~AgentGraphCyclic) =>
        /\ LoopFollowsOrder
        /\ \A x, y \in RegistryAgentsUsed :
            (DependsAcross(x, y) /\ InSeq(branches, BranchOf(x))
                                 /\ InSeq(branches, BranchOf(y))) =>
                /\ InSeq(merge_order, BranchOf(x))
                /\ InSeq(merge_order, BranchOf(y))
                /\ PosIn(merge_order, BranchOf(x)) < PosIn(merge_order, BranchOf(y))

\* A finished run in which agent-10 depends on agent-2: the loop merged the
\* branch -2 before the branch -10, against their sorted order.
C3_Witness ==
    /\ merge_pc = "done"
    /\ strategy = "smart"
    /\ registry.exists
    /\ ~AgentGraphCyclic
    /\ DependsAcross(AgentId(2), AgentId(10))
    /\ merge_order = <<BranchName(2), BranchName(10)>>
    /\ Len(attempts) = 2
    /\ attempts[1].branch = BranchName(2)

\* q lists its branches in ascending string order of their names.
LexSorted(q) ==
    \A i, j \in 1..Len(q) :
        i < j => ~StrLess(Digits(q[j][3]), Digits(q[i][3]))

SameElements(q, r) ==
    /\ Len(q) = Len(r)
    /\ \A i \in 1..Len(q) : Count(q, q[i]) = Count(r, q[i])

\* C4: when the agent-level graph has a cycle, the smart planning returns
\* without raising: it logs the warning, merge_order is all the discovered
\* branches in lexicographic order, and the run goes on with that order.
C4_CycleFallback ==
    (Planned /\ strategy = "smart" /\ registry.exists /\ AgentGraphCyclic) =>
        /\ InSeq(merge_log, Log("WARNING", <<"Circular dependencies">>))
        /\ SameElements(merge_order, branches)
        /\ LexSorted(merge_order)
        /\ LoopFollowsOrder
        /\ merge_pc \in {"predicting", "creating", "merging"} => result = NoResult

\* A finished run over a cyclic graph whose remote lists the branch -2
\* before the branch -10: both were attempted, -10 first.
C4_Witness ==
    /\ merge_pc = "done"
    /\ strategy = "smart"
    /\ AgentGraphCyclic
    /\ branches = <<BranchName(2), BranchName(10)>>
    /\ Len(attempts) = 2
    /\ attempts[1].branch = BranchName(10)
    /\ result.kind = "summary"

\* The safe rule as the specification states it.
SafeFile(f) ==
    \/ f.ext = ".md" \/ f.ext = ".json" \/ f.ext = ".txt"
    \/ \E i \in 1..Len(f.path) : f.path[i] \in {"generated", "Generated"}

AllSafe(fs) == \A i \in 1..Len(fs) : SafeFile(fs[i])
AllIncoming(fs) == \A i \in 1..Len(fs) : fs[i].theirs

\* The conflict records of an attempted branch.
RecordsOf(b) == {i \in 1..Len(conflicts) : conflicts[i].branch = b}

\* The attempt was auto-resolved: committed, recorded once as resolved and
\* returned as merged.
AutoResolved(a) ==
    /\ a.ret = "True"
    /\ a.branch \in a.after.merged
    /\ a.after.merge_head = <<>>
    /\ Cardinality(RecordsOf(a.branch)) = 1
    /\ \A i \in RecordsOf(a.branch) : conflicts[i].resolved

\* The attempt was skipped: recorded once as unresolved, not returned as
\* merged, and the workspace is as it was before the attempt.
Skipped(a) ==
    /\ a.ret = "False"
    /\ a.after = a.before
    /\ a.branch \notin a.after.merged
    /\ Cardinality(RecordsOf(a.branch)) = 1
    /\ \A i \in RecordsOf(a.branch) : ~conflicts[i].resolved

\* merged_count counts exactly the attempts returned as merged.
CountsMerged ==
    merged_count = Cardinality({i \in 1..Len(attempts) : attempts[i].ret = "True"})

Conflicted(a) == a.out.kind = "conflict"

C6_NoPartialResolution ==
    \A i \in 1..Len(attempts) :
        attempts[i].taken # <<>> => AllSafe(attempts[i].out.files)

\* C7: no exception leaves a branch's attempt, a failed attempt leaves the
\* workspace as it was before it, and once the loop has started every
\* branch of the merge order is attempted.
C7_FailureIsolated ==
    /\ \A i \in 1..Len(attempts) :
        /\ attempts[i].ret # "raise"
        /\ attempts[i].ret = "False" => attempts[i].after = attempts[i].before
        /\ attempts[i].after.merge_head = <<>>
    /\ (merge_pc \in {"validating", "reporting", "done"} /\ attempts # <<>>) =>
            Len(attempts) = Len(merge_order)

\* C8: a run that discovered a branch ends with a report written and a
\* result carrying the merged and total counts.
C8_AlwaysReports ==
    (merge_pc = "done" /\ branches # <<>>) =>
        /\ report # <<>>
        /\ result.kind = "summary"
        /\ result.total_branches = Len(branches)
        /\ result.merged_branches = merged_count

\* C9: every attempt ends merged cleanly (no record), auto-resolved (one
\* record, resolved) or skipped (one record, unresolved); records are made
\* only by failed merges; and the counts of a result add up.
C9_OutcomesAndCounts ==
    /\ \A i \in 1..Len(attempts) :
        LET a == attempts[i]
            recs == RecordsOf(a.branch)
        IN \/ a.ret = "True" /\ a.out.kind = "clean" /\ recs = {}
           \/ a.ret = "True" /\ a.out.kind # "clean" /\ Cardinality(recs) = 1
                /\ \A k \in recs : conflicts[k].resolved
           \/ a.ret = "False" /\ a.out.kind # "clean" /\ Cardinality(recs) = 1
                /\ \A k \in recs : ~conflicts[k].resolved
    /\ Len(conflicts) =
          Cardinality({i \in 1..Len(attempts) : attempts[i].out.kind # "clean"})
    /\ result.kind = "summary" =>
        /\ result.merged_branches + result.manual_conflicts = Len(attempts)
        /\ result.conflicts_resolved <= result.merged_branches
        /\ result.merged_branches <= result.total_branches

\* C10: in the result of a run that reached reporting, success is true iff
\* at least one branch was merged into the merge branch.
C10_SuccessIffMerged ==
    result.kind = "summary" =>
        (result.success <=> \E i \in 1..Len(attempts) :
                                /\ attempts[i].ret = "True"
                                /\ attempts[i].branch \in ws.merged)

\* A partial merge with an unresolved conflict and failed tests, reported
\* with success = true.
C10_Witness ==
    /\ result.kind = "summary"
    /\ result.success
    /\ result.merged_branches = 1
    /\ result.total_branches = 2
    /\ result.manual_conflicts = 1
    /\ ~result.test_passed

NoAgentLine == \A i \in 1..Len(remote) : remote[i] = MainLine

NoBranchesError == ErrorResult(<<"No agent branches found to merge">>)

\* C11: when execute_merge starts and the remote lists no agent branch, the
\* call ends at once with the error 'No agent branches found to merge' and
\* changes nothing: the workspace (no merge branch, no merge), the merge
\* log, the conflict list, the written reports and the attempts are as
\* before the call.
C11_NoBranchesNoMutation ==
    [][(merge_pc = "constructed" /\ NoAgentLine) =>
          /\ merge_pc' = "done"
          /\ result' = NoBranchesError
          /\ UNCHANGED <<ws, merge_log, conflicts, report, attempts,
                         merged_count>>]_vars

\* A second call that found no branch, after a first call that logged,
\* created its merge branch and wrote its report.
C11_Witness ==
    /\ merge_pc = "done"
    /\ merge_calls = 2
    /\ NoAgentLine
    /\ result = NoBranchesError
    /\ merge_log # <<>>
    /\ Len(report) = 1
    /\ ws.head = "merge"
    /\ attempts = <<>>

\* C12: two merge runs of one project never work on the workspace at the
\* same time: while one is between the creation of its merge branch and the
\* end of its merge loop the other is not, and every merge attempt of a run
\* is made on that run's own merge branch.
C12_SingleActiveRun ==
    /\ ~(merge_pc \in {"creating", "merging"} /\ rival_pc \in {"creating", "merging"})
    /\ \A i \in 1..Len(attempts) : attempts[i].before.head = "merge"

\* Command k of the test commands was run in env and exceeded its timeout:
\* its executable exists and no earlier command ended the validation.
TimedOut(env, k) ==
    /\ TestCommands[k].exe \in env.present
    /\ env.outcome[k] = "timeout"
    /\ \A j \in 1..(k - 1) :
        TestCommands[j].exe \in env.present => env.outcome[j] = "timeout"

\* C13: when a validation command that was run exceeded its timeout, the
\* validation result is false, and the run still ends with its report and a
\* result that carries test_passed = false.
C13_TimeoutFailsValidation ==
    (test_result # <<>> /\ \E k \in 1..Len(TestCommands) : TimedOut(test_result[2], k)) =>
        /\ ~test_result[1]
        /\ merge_pc = "done" =>
            /\ result.kind = "summary"
            /\ ~result.test_passed
            /\ report # <<>>

Predicted == merge_pc \notin {"constructed", "planning", "predicting"} /\ branches # <<>>

\* The branches that changed file f, and those of them whose change list
\* `git diff` could print.
ChangedBy(f) ==
    {b \in Range(branches) : \E i \in 1..Len(diff_env[b].files) : diff_env[b].files[i] = f}

ReadChangedBy(f) == {b \in ChangedBy(f) : diff_env[b].returncode = 0}

PredictedFor(f) == {i \in 1..Len(predicted) : predicted[i].file = f}

\* The prediction holds exactly one record for f, listing exactly the
\* branches of S, each once, with the severity of their number.
OneRecord(f, S) ==
    /\ Cardinality(PredictedFor(f)) = 1
    /\ \A i \in PredictedFor(f) :
        /\ Range(predicted[i].branches) = S
        /\ Len(predicted[i].branches) = Cardinality(S)
        /\ predicted[i].severity = IF Cardinality(S) > 2 THEN "high" ELSE "medium"

\* C14 as stated: one record for every file changed by two or more
\* branches, none for a file changed by fewer.
C14_AsStated ==
    Predicted =>
        \A k \in 1..Len(DiffFiles) :
            IF Cardinality(ChangedBy(DiffFiles[k])) >= 2
            THEN OneRecord(DiffFiles[k], ChangedBy(DiffFiles[k]))
            ELSE PredictedFor(DiffFiles[k]) = {}

\* C14, amended: the prediction counts the branches whose change list could
\* be read.  One record for every file changed by two or more of them,
\* listing exactly them, high for more than two and medium for two; no
\* record for any other file.
C14_PredictedFromReadDiffs ==
    Predicted =>
        \A k \in 1..Len(DiffFiles) :
            IF Cardinality(ReadChangedBy(DiffFiles[k])) >= 2
            THEN OneRecord(DiffFiles[k], ReadChangedBy(DiffFiles[k]))
            ELSE PredictedFor(DiffFiles[k]) = {}

\* Three branches, all diffs read: README.md changed by the three (high),
\* app.py by two (medium), data.json by one (no record).
C14_Witness ==
    /\ Predicted
    /\ Len(branches) = 3
    /\ \A b \in Range(branches) : diff_env[b].returncode = 0
    /\ Cardinality(ChangedBy("README.md")) = 3
    /\ Cardinality(ChangedBy("app.py")) = 2
    /\ Cardinality(ChangedBy("data.json")) = 1
    /\ Len(predicted) = 2
    /\ \E i, j \in 1..2 : predicted[i].severity = "high" /\ predicted[j].severity = "medium"

\* The attempts of the current call that ended with the given return value
\* after a failed merge.
FailedMergesReturning(ret) ==
    {i \in 1..Len(attempts) : attempts[i].out.kind # "clean" /\ attempts[i].ret = ret}

\* The entries of a log that open a call ("Found n branches to merge").
CallOpenings(log) == {i \in 1..Len(log) : log[i].msg[1] = "Found"}

\* C15: the result and the report of a call hold only what that call
\* produced: the counts are those of the call's own conflicts, the report
\* lists the call's own conflicts and the log of one call.
C15_PerCallState ==
    result.kind = "summary" =>
        /\ result.conflicts_resolved = Cardinality(FailedMergesReturning("True"))
        /\ result.manual_conflicts = Cardinality(FailedMergesReturning("False"))
        /\ Len(report[Len(report)].conflicts) =
              Cardinality(FailedMergesReturning("True") \cup FailedMergesReturning("False"))
        /\ Cardinality(CallOpenings(report[Len(report)].log)) = 1

\* C16: the outputs of a distribution pass appear together.  Nothing is
\* written while tasks are still being assigned, the task registry and the
\* distribution summary are either both written or both not, and a written
\* registry holds an agent for every task.
C16_AtomicPersist ==
    /\ dist_pc \in {"constructed", "failed", "first_pass", "second_pass"} =>
        /\ instructions_out = <<>>
        /\ registry_out = <<>>
        /\ summary_out = <<>>
    /\ (registry_out = <<>>) <=> (summary_out = <<>>)
    /\ \A i \in 1..Len(registry_out) : registry_out[i].assigned_agent # None

\* C17: distribute_tasks fails when the loaded task list or the loaded agent
\* pool is empty, and a failed call has assigned no task and written no
\* instruction file, task registry or distribution summary.
C17_EmptyInputsFail ==
    /\ (dist_pc # "constructed" /\ (task_plan = <<>> \/ agents_csv = <<>>)) =>
            dist_pc = "failed"
    /\ dist_pc = "failed" =>
        /\ \A i \in 1..Len(tasks) : tasks[i].assigned_agent = None
        /\ \A a \in 1..Len(agents) :
            agents[a].assigned_tasks = <<>> /\ agents[a].total_time = 0
        /\ instructions_out = <<>>
        /\ registry_out = <<>>
        /\ summary_out = <<>>

\* A call that failed on the empty agent pool with two tasks loaded.
C17_Witness ==
    /\ dist_pc = "failed"
    /\ Len(tasks) = 2
    /\ agents = <<>>

\* C18: when there are at least as many tasks as agents, every agent holds
\* at least one task once the assignment has ended.
C18_EveryAgentServed ==
    (dist_pc \in {"assigned", "done"} /\ Len(tasks) >= Len(agents)) =>
        \A a \in 1..Len(agents) : agents[a].assigned_tasks # <<>>

\* Three tasks over two agents, one of them deferred to the forced pass,
\* and both agents hold a task.
C18_Witness ==
    /\ dist_pc = "done"
    /\ Len(tasks) = 3
    /\ Len(agents) = 2
    /\ unassigned # <<>>
    /\ Len(agents[1].assigned_tasks) + Len(agents[2].assigned_tasks) = 3
    /\ agents[1].assigned_tasks # <<>>
    /\ agents[2].assigned_tasks # <<>>

(***************************************************************************)
(* C19: _estimate_complexity returns high when strictly more high-signal   *)
(* than low-signal keywords match the description, else low when at least  *)
(* one low-signal keyword matches, else medium; _estimate_time maps low,   *)
(* medium, high to 30, 90, 180 and anything else to 60; every task the     *)
(* planner holds carries the time of its complexity; and the output is a   *)
(* function of the input alone, whatever the planner holds.                *)
(***************************************************************************)
HighMatches(d) ==
    Cardinality({w \in HighIndicators : KeywordIn(w, DescLower(d))})

LowMatches(d) ==
    Cardinality({w \in LowIndicators : KeywordIn(w, DescLower(d))})

ComplexityRule(d) ==
    IF HighMatches(d) > LowMatches(d) THEN "high"
    ELSE IF LowMatches(d) >= 1 THEN "low"
    ELSE "medium"

TimeRule(c) ==
    IF c = "low" THEN 30
    ELSE IF c = "medium" THEN 90
    ELSE IF c = "high" THEN 180
    ELSE 60

C19_EstimateRules ==
    /\ estimate.fn = "complexity" =>
           estimate.output = ComplexityRule(estimate.input)
    /\ estimate.fn = "time" => estimate.output = TimeRule(estimate.input)
    /\ \A i \in 1..Len(planner_tasks) :
           planner_tasks[i].estimated_time = TimeRule(planner_tasks[i].complexity)

\* A tie of one high-signal and one low-signal keyword estimated while the
\* planner holds a task of an estimated 180 minutes.
C19_Witness ==
    /\ estimate.fn = "complexity"
    /\ HighMatches(estimate.input) = 1
    /\ LowMatches(estimate.input) = 1
    /\ Len(estimate.input) = 3
    /\ planner_tasks # <<>>
    /\ planner_tasks[1].estimated_time = 180

(***************************************************************************)
(* C20: a Task whose complexity, priority or status is outside its         *)
(* enumerated set is rejected with a validation error, and an accepted     *)
(* Task keeps the values it was given; an _add_task rejected this way      *)
(* leaves the task list and task_id_counter as they were.                  *)
(***************************************************************************)
Enumerated(f) ==
    /\ f.complexity \in {"low", "medium", "high"}
    /\ f.priority \in {"low", "normal", "high"}
    /\ f.status \in {"pending", "in_progress", "completed", "blocked"}

RejectedOrKept ==
    task_result.by # "none" =>
        IF Enumerated(task_result.args)
        THEN task_result.outcome = task_result.args
        ELSE task_result.outcome = ValidationError

RejectionLeavesPlanner ==
    (task_result'.by = "_add_task" /\ task_result'.outcome = ValidationError)
        => UNCHANGED <<planner_tasks, task_id_counter>>

C20_InvalidTaskRejected == []RejectedOrKept /\ [][RejectionLeavesPlanner]_vars

\* _add_task rejected for its complexity after one task was added, and the
\* planner still holds that one task and the next identifier.
C20_Witness ==
    /\ task_result.by = "_add_task"
    /\ task_result.args.complexity = "invalid"
    /\ task_result.args.priority = "normal"
    /\ task_result.outcome = ValidationError
    /\ Len(planner_tasks) = 1
    /\ task_id_counter = 2

(***************************************************************************)
(* C21: the tasks added to a fresh planner carry pairwise distinct ids     *)
(* TASK-0001, TASK-0002, ... in discovery order, and task_id_counter is    *)
(* the number of tasks plus one; dependency analysis, reordering, saving   *)
(* and distribution keep every task's id.                                  *)
(***************************************************************************)
IdOfNumber(n) == <<"TASK-", 0, 0, 0, n>>

IdsOf(ts) == [i \in 1..Len(ts) |-> ts[i].task_id]

\* What identifies a discovered task besides its id.
Identities(ts) ==
    {<<ts[i].task_id, ts[i].description, ts[i].category, ts[i].priority>> :
        i \in 1..Len(ts)}

IdsNumbered ==
    /\ task_id_counter = Len(planner_tasks) + 1
    /\ \A i, j \in 1..Len(planner_tasks) :
           i # j => planner_tasks[i].task_id # planner_tasks[j].task_id
    /\ Range(IdsOf(planner_tasks)) = {IdOfNumber(n) : n \in 1..Len(planner_tasks)}
    /\ planner_pc = "parsing" =>
           \A i \in 1..Len(planner_tasks) : planner_tasks[i].task_id = IdOfNumber(i)
    /\ planner_pc = "saved" =>
           [i \in 1..Len(task_plan) |-> PlanTaskId(task_plan, i)]
               = IdsOf(planner_tasks)
    /\ dist_pc # "constructed" => IdsOf(tasks) = IdsOf(planner_tasks)

LaterStepsKeepIds ==
    planner_pc' # "parsing" =>
        Identities(planner_tasks') = Identities(planner_tasks)

C21_StableTaskIds == []IdsNumbered /\ [][LaterStepsKeepIds]_vars

\* Three tasks whose list order is no longer the discovery order, distributed.
C21_Witness ==
    /\ Len(planner_tasks) = 3
    /\ planner_tasks[1].task_id = IdOfNumber(2)
    /\ dist_pc = "done"
    /\ tasks[1].task_id = IdOfNumber(2)

(***************************************************************************)
(* C22: dependency analysis gives every testing task that has no           *)
(* dependency after the explicit scan the first two feature or             *)
(* implementation tasks of the list (one or none if there are fewer) as    *)
(* dependencies, and gives no other task a synthetic dependency.           *)
(***************************************************************************)
ImplPositions(ts, i) ==
    {j \in 1..Len(ts) : j # i /\ ts[j].category \in {"feature", "implementation"}}

\* The k-th smallest element of the set of positions S.
KthOf(S, k) ==
    CHOOSE j \in S : Cardinality({m \in S : m < j}) = k - 1

FirstTwoImpl(ts, i) ==
    LET S == ImplPositions(ts, i)
        n == IF Cardinality(S) < 2 THEN Cardinality(S) ELSE 2
    IN [k \in 1..n |-> ts[KthOf(S, k)].task_id]

AfterScan(ts, i) == ts[i].dependencies \o ExplicitDependencies(ts, i)

SyntheticRule ==
    (planner_pc = "parsing" /\ planner_pc' = "analyzed") =>
        \A i \in 1..Len(planner_tasks) :
            planner_tasks'[i].dependencies =
                IF /\ planner_tasks[i].category = "testing"
                   /\ AfterScan(planner_tasks, i) = <<>>
                THEN FirstTwoImpl(planner_tasks, i)
                ELSE AfterScan(planner_tasks, i)

C22_SyntheticTestingDependencies == [][SyntheticRule]_vars

\* After the analysis: the first task is a testing task that names no other
\* task and depends on the first two of three implementation tasks.
C22_Witness ==
    /\ planner_pc = "analyzed"
    /\ Len(planner_tasks) = 4
    /\ planner_tasks[1].category = "testing"
    /\ planner_tasks[1].dependencies = <<IdOfNumber(2), IdOfNumber(3)>>
    /\ planner_tasks[4].category = "implementation"
    /\ planner_tasks[4].dependencies = <<>>

(***************************************************************************)
(* C23: after any sequence of launches the agent registry holds one row    *)
(* per agent id, and so does the pool the distributor loads from it.       *)
(***************************************************************************)
C23_OneRowPerAgent ==
    /\ \A i, j \in 1..Len(agents_csv) : i # j => agents_csv[i] # agents_csv[j]
    /\ \A i, j \in 1..Len(agents) :
           i # j => agents[i].agent_id # agents[j].agent_id

(***************************************************************************)
(* C24: a status read returns one entry per agent of the registry; an      *)
(* agent whose commit count could not be read shows 0 commits, and an      *)
(* agent whose last commit could not be read shows 'Never' or 'Unknown'.   *)
(***************************************************************************)
C24_LookupFailureDegrades ==
    agent_status # <<>> =>
        /\ Len(agent_status) = Len(agents_csv)
        /\ \A i \in 1..Len(agents_csv) :
            LET e == agent_status[i]
            IN /\ e.agent_id = agents_csv[i]
               /\ e.count_lookup # "3" => e.commits = 0
               /\ e.log_lookup # "2 hours ago" =>
                      e.last_commit \in {"Never", "Unknown"}
               /\ (e.count_lookup = "3" /\ e.log_lookup = "2 hours ago") =>
                      (e.commits = 3 /\ e.last_commit = "2 hours ago")

\* The first agent's count lookup raised and the second agent was read.
C24_Witness ==
    /\ Len(agent_status) = 2
    /\ agent_status[1].count_lookup = "raises"
    /\ agent_status[2].count_lookup = "3"
    /\ agent_status[2].log_lookup = "2 hours ago"
    /\ agent_status[2].commits = 3

(***************************************************************************)
(* C25: in the first pass an agent is eligible for the task exactly when   *)
(* it holds none of the task's dependencies and its total_time is at most  *)
(* 1.5 times the pool's average; the task goes to an eligible agent with   *)
(* the smallest (total_time, complexity_score), and is deferred exactly    *)
(* when no agent is eligible.                                              *)
(***************************************************************************)
HoldsDepOf(task, a) ==
    \E d \in task.dependencies : \E i \in 1..Len(tasks) :
        tasks[i].task_id = d /\ tasks[i].assigned_agent = agents[a].agent_id

WithinLoadLimit(a) ==
    2 * Len(agents) * agents[a].total_time <= 3 * SumSeq(TotalTimes(agents))

EligibleFor(task) ==
    {a \in 1..Len(agents) : ~HoldsDepOf(task, a) /\ WithinLoadLimit(a)}

SmallerLoad(a, b) ==
    \/ agents[a].total_time < agents[b].total_time
    \/ /\ agents[a].total_time = agents[b].total_time
       /\ agents[a].complexity_score < agents[b].complexity_score

FirstPassChoice ==
    (dist_pc = "first_pass" /\ <<dist_pc, cursor>>' # <<dist_pc, cursor>>) =>
        LET ti == sorted_tasks[cursor]
            eligible == EligibleFor(tasks[ti])
        IN IF eligible = {}
           THEN /\ unassigned' = Append(unassigned, ti)
                /\ tasks'[ti].assigned_agent = None
                /\ agents' = agents
           ELSE /\ unassigned' = unassigned
                /\ \E b \in eligible :
                    /\ tasks'[ti].assigned_agent = agents[b].agent_id
                    /\ \A a \in eligible : ~SmallerLoad(a, b)

C25_FirstPassEligibility == [][FirstPassChoice]_vars

\* The first pass is over: the first task went to the first agent, the
\* second to the second agent (the first being above the load limit then),
\* and the third was deferred because each agent holds one of its
\* dependencies.
C25_Witness ==
    /\ dist_pc = "second_pass"
    /\ Len(sorted_tasks) = 3
    /\ unassigned = <<sorted_tasks[3]>>
    /\ agents[1].total_time = 30
    /\ agents[2].total_time = 90
    /\ HoldsDepOf(tasks[sorted_tasks[3]], 1)
    /\ HoldsDepOf(tasks[sorted_tasks[3]], 2)

(***************************************************************************)
(* C26: a deferred task stays unassigned until the first pass has          *)
(* considered every task; the second pass then gives each deferred task,   *)
(* in the order of deferral, to an agent whose total_time is the smallest  *)
(* at that moment, whatever that agent holds.                              *)
(***************************************************************************)
DeferredWait ==
    dist_pc = "first_pass" =>
        \A k \in 1..Len(unassigned) : tasks[unassigned[k]].assigned_agent = None

SecondPassChoice ==
    (dist_pc = "second_pass" /\ <<dist_pc, cursor>>' # <<dist_pc, cursor>>) =>
        LET ti == unassigned[cursor]
        IN /\ \A k \in 1..Len(sorted_tasks) :
                \/ tasks[sorted_tasks[k]].assigned_agent # None
                \/ \E m \in cursor..Len(unassigned) : unassigned[m] = sorted_tasks[k]
           /\ tasks[ti].assigned_agent = None
           /\ \E b \in 1..Len(agents) :
                /\ tasks'[ti].assigned_agent = agents[b].agent_id
                /\ agents'[b].total_time =
                       agents[b].total_time + tasks[ti].estimated_time
                /\ \A a \in 1..Len(agents) :
                       agents[a].total_time >= agents[b].total_time

C26_DeferredForcedOnLeastLoaded == []DeferredWait /\ [][SecondPassChoice]_vars

\* A deferred task has been forced onto an agent that holds one of its
\* dependencies.
C26_Witness ==
    /\ dist_pc \in {"second_pass", "assigned"}
    /\ \E k \in 1..Len(unassigned) :
        LET t == tasks[unassigned[k]]
        IN /\ t.assigned_agent # None
           /\ \E i \in 1..Len(tasks) :
                /\ tasks[i].task_id \in t.dependencies
                /\ tasks[i].assigned_agent = t.assigned_agent

(***************************************************************************)
(* C27: the first pass considers the tasks one after the other in the      *)
(* order of ascending dependency count, then priority (high, normal, low), *)
(* then descending complexity weight (high 5, medium 3, low 1).            *)
(***************************************************************************)
RankOf(t) ==
    IF t.priority = "high" THEN 0 ELSE IF t.priority = "normal" THEN 1 ELSE 2

ComplexityWeight(t) ==
    IF t.complexity = "high" THEN 5 ELSE IF t.complexity = "medium" THEN 3 ELSE 1

\* Task a may be considered before task b.
NotAfter(a, b) ==
    \/ Cardinality(a.dependencies) < Cardinality(b.dependencies)
    \/ /\ Cardinality(a.dependencies) = Cardinality(b.dependencies)
       /\ \/ RankOf(a) < RankOf(b)
          \/ RankOf(a) = RankOf(b) /\ ComplexityWeight(a) >= ComplexityWeight(b)

SortedByKey ==
    dist_pc \in {"first_pass", "second_pass", "assigned", "done"} =>
        /\ Len(sorted_tasks) = Len(tasks)
        /\ Range(sorted_tasks) = 1..Len(tasks)
        /\ \A k \in 1..(Len(sorted_tasks) - 1) :
               NotAfter(tasks[sorted_tasks[k]], tasks[sorted_tasks[k + 1]])

ConsideredInOrder ==
    (dist_pc = "first_pass" /\ <<dist_pc, cursor>>' # <<dist_pc, cursor>>) =>
        /\ sorted_tasks' = sorted_tasks
        /\ \A i \in 1..Len(tasks) :
               i # sorted_tasks[cursor] => tasks'[i] = tasks[i]
        /\ \/ tasks'[sorted_tasks[cursor]].assigned_agent # None
           \/ unassigned' = Append(unassigned, sorted_tasks[cursor])
        /\ IF cursor < Len(sorted_tasks)
           THEN dist_pc' = "first_pass" /\ cursor' = cursor + 1
           ELSE dist_pc' # "first_pass"

C27_FirstPassOrder == []SortedByKey /\ [][ConsideredInOrder]_vars

\* The first pass has considered one of three tasks, and the order differs
\* from the plan's: a later task of the plan with the same dependency count
\* and priority and a greater complexity weight comes first.
C27_Witness ==
    /\ dist_pc = "first_pass"
    /\ cursor = 2
    /\ Len(sorted_tasks) = 3
    /\ \E k \in 1..2 :
        LET a == tasks[sorted_tasks[k]]
            b == tasks[sorted_tasks[k + 1]]
        IN /\ sorted_tasks[k] > sorted_tasks[k + 1]
           /\ Cardinality(a.dependencies) = Cardinality(b.dependencies)
           /\ a.priority = b.priority
           /\ ComplexityWeight(a) > ComplexityWeight(b)

(***************************************************************************)
(* C28: the k-th attempt of the merge loop is on the k-th branch of the    *)
(* merge order, and every attempt starts where the one before it ended,    *)
(* with no merge in progress: the branch before it is merged,              *)
(* auto-resolved or aborted.                                               *)
(***************************************************************************)
NoMergeInProgress(w) ==
    w.merge_head = <<>> /\ w.unmerged = {} /\ w.staged = {}

C28_InOrderOneAtATime ==
    \A k \in 1..Len(attempts) :
        /\ attempts[k].branch = merge_order[k]
        /\ NoMergeInProgress(attempts[k].before)
        /\ k > 1 => attempts[k].before = attempts[k - 1].after

(***************************************************************************)
(* C29: in a run that discovers at least one branch the phases come in the *)
(* order discovery, planning, prediction, merge loop, validation,          *)
(* reporting; validation starts only after the last attempt of the loop    *)
(* and before the report is written, and the finished run has validated    *)
(* exactly once.                                                           *)
(***************************************************************************)
PhaseRank(pc) ==
    CASE pc = "constructed" -> 0
      [] pc = "planning" -> 1
      [] pc = "predicting" -> 2
      [] pc = "creating" -> 3
      [] pc = "merging" -> 4
      [] pc = "validating" -> 5
      [] pc = "reporting" -> 6
      [] pc = "done" -> 7

ValidationRuns ==
    Cardinality({k \in 1..Len(merge_log) :
                    merge_log[k] = Info(<<"Running tests">>)})

PhasesForward == PhaseRank(merge_pc) <= PhaseRank(merge_pc')

ValidationAfterLoop ==
    (merge_pc = "validating" /\ merge_pc' # merge_pc) =>
        /\ Len(attempts) = Len(merge_order)
        /\ attempts' = attempts
        /\ report = <<>> /\ report' = <<>>
        /\ merge_pc' = "reporting"

NoValidationInLoop ==
    merge_pc \in {"constructed", "planning", "predicting", "creating",
                  "merging"} => ValidationRuns = 0

ValidatedOnce ==
    (merge_pc = "done" /\ branches # <<>>) => ValidationRuns = 1

C29_PhaseOrder ==
    /\ [][PhasesForward /\ ValidationAfterLoop]_vars
    /\ [](NoValidationInLoop /\ ValidatedOnce)

\* The order alone, for the runs that leave execute_merge early as well.
C29_OrderOnly ==
    /\ [][PhasesForward /\ ValidationAfterLoop]_vars
    /\ [](NoValidationInLoop /\ ValidationRuns <= 1)

(***************************************************************************)
(* C30: validation runs exactly the first of npm test, python -m pytest,   *)
(* make test, npm run test whose executable is present, and passes iff     *)
(* that command exits with status 0; with no executable present it runs    *)
(* nothing and passes.                                                     *)
(***************************************************************************)
PresentCommands(env) ==
    {k \in 1..Len(TestCommands) : TestCommands[k].exe \in env.present}

FirstPresent(env) ==
    CHOOSE k \in PresentCommands(env) : \A j \in PresentCommands(env) : k <= j

C30_FirstPresentCommandDecides ==
    test_result # <<>> =>
        LET env == test_result[2]
            r == RunTests(env)
        IN IF PresentCommands(env) = {}
           THEN test_result[1] /\ r.ran = <<>>
           ELSE /\ r.ran = <<FirstPresent(env)>>
                /\ test_result[1] <=> (env.outcome[FirstPresent(env)] = "pass")

(***************************************************************************)
(* C31: the prediction step changes only the merge log (and the list it    *)
(* returns): the merge order, the attempts, the realized conflicts, the    *)
(* counts and the result are those of the merges alone.                    *)
(***************************************************************************)
RECURSIVE RealizedConflicts(_)
RealizedConflicts(k) ==
    IF k = 0 THEN <<>>
    ELSE RealizedConflicts(k - 1)
         \o MergeBranch(attempts[k].before, attempts[k].branch,
                        attempts[k].out).record

MergedAttempts == {k \in 1..Len(attempts) : attempts[k].ret = "True"}

PredictionStepFrame ==
    (merge_pc = "predicting" /\ merge_pc' # merge_pc) =>
        /\ UNCHANGED <<merge_order, branches, conflicts, attempts,
                       merged_count, ws, report, result, test_result>>
        /\ Len(merge_log') > Len(merge_log)
        /\ SubSeq(merge_log', 1, Len(merge_log)) = merge_log

RealizedOnly ==
    /\ conflicts = RealizedConflicts(Len(attempts))
    /\ merged_count = Cardinality(MergedAttempts)
    /\ \A k \in 1..Len(attempts) : attempts[k].branch = merge_order[k]
    /\ result.kind = "summary" =>
        /\ result.merged_branches = Cardinality(MergedAttempts)
        /\ result.conflicts_resolved =
              Cardinality(Resolved(RealizedConflicts(Len(attempts))))
        /\ result.manual_conflicts =
              Cardinality(Unresolved(RealizedConflicts(Len(attempts))))

C31_PredictionOnlyLogs ==
    /\ [][PredictionStepFrame]_vars
    /\ []RealizedOnly

C31_Witness ==
    /\ merge_pc = "done"
    /\ result.kind = "summary"
    /\ predicted # <<>>
    /\ conflicts = <<>>
    /\ result.merged_branches = Len(branches)

(***************************************************************************)
(* C32: under either strategy the merge order is a permutation of the      *)
(* discovered branches, and a run that gets through its merge loop has     *)
(* attempted each discovered branch exactly once, so that the number of    *)
(* attempts is total_branches.                                             *)
(***************************************************************************)
Occurrences(q, x) == Cardinality({k \in 1..Len(q) : q[k] = x})

IsPermutation(q, r) ==
    /\ Len(q) = Len(r)
    /\ \A k \in 1..Len(r) : Occurrences(q, r[k]) = Occurrences(r, r[k])

AttemptedBranches == [k \in 1..Len(attempts) |-> attempts[k].branch]

C32_EachBranchAttemptedOnce ==
    /\ PhaseRank(merge_pc) \in 2..6 => IsPermutation(merge_order, branches)
    /\ PhaseRank(merge_pc) \in 5..6 =>
          IsPermutation(AttemptedBranches, branches)
    /\ (merge_pc = "done" /\ result.kind = "summary") =>
        /\ IsPermutation(AttemptedBranches, branches)
        /\ Len(attempts) = result.total_branches

(***************************************************************************)
(* C33: with an acyclic task-level dependency relation the smart merge     *)
(* order puts the branch of agent x before the branch of agent y whenever  *)
(* a task of y depends on a task of x (both branches discovered).          *)
(***************************************************************************)
RegistryTaskIds == {registry.rows[i].task_id : i \in 1..Len(registry.rows)}

DepsOfTask(t) ==
    UNION {registry.rows[i].dependencies :
              i \in {j \in 1..Len(registry.rows) :
                        registry.rows[j].task_id = t}}

\* The tasks that the tasks of S depend on, through at most n steps.
RECURSIVE DependedOn(_, _)
DependedOn(S, n) ==
    IF n = 0 THEN S
    ELSE DependedOn(S \cup UNION {DepsOfTask(t) : t \in S}, n - 1)

TaskGraphCyclic ==
    \E t \in RegistryTaskIds :
        t \in DependedOn(DepsOfTask(t), Cardinality(RegistryTaskIds))

CrossAgentRespected ==
    \A x, y \in RegistryAgentsUsed :
        (DependsAcross(x, y) /\ InSeq(branches, BranchOf(x))
                             /\ InSeq(branches, BranchOf(y))) =>
            /\ InSeq(merge_order, BranchOf(x))
            /\ InSeq(merge_order, BranchOf(y))
            /\ PosIn(merge_order, BranchOf(x)) < PosIn(merge_order, BranchOf(y))

SmartOverAcyclicTasks ==
    Planned /\ strategy = "smart" /\ registry.exists /\ ~TaskGraphCyclic

C33_AsStated == SmartOverAcyclicTasks => CrossAgentRespected

\* C33 as the code has it: the agents' graph decides, and acyclic tasks can
\* make it cyclic; the order is then the sorted list of the branches.
C33_AgentGraphDecides ==
    SmartOverAcyclicTasks =>
        IF AgentGraphCyclic
        THEN merge_order = SortedBranches(branches)
        ELSE CrossAgentRespected

C33_Witness ==
    /\ SmartOverAcyclicTasks
    /\ AgentGraphCyclic
    /\ merge_pc = "done"
    /\ Len(attempts) = 2
    /\ merge_order = SortedBranches(branches)
    /\ ~CrossAgentRespected

(***************************************************************************)
(* C34: when the first pass has placed every task (nothing was deferred),  *)
(* no task is on the same agent as one of its dependencies.                *)
(***************************************************************************)
SharesAgentWithDependency(i) ==
    \E j \in 1..Len(tasks) :
        /\ tasks[j].task_id \in tasks[i].dependencies
        /\ tasks[j].assigned_agent = tasks[i].assigned_agent

C34_NoDependencyOnSameAgent ==
    (dist_pc \in {"assigned", "done"} /\ unassigned = <<>>) =>
        \A i \in 1..Len(tasks) : ~SharesAgentWithDependency(i)

(***************************************************************************)
(* C35: every merge attempt of a run starts and ends on the merge branch   *)
(* the run created, main never holds a merged agent branch, and a run      *)
(* whose merge branch could not be created attempts no merge.              *)
(***************************************************************************)
CreationFailed ==
    /\ merge_pc = "done"
    /\ \E c \in CreateOutcomes \ {"ok"} :
          result = ErrorResult(<<"exception", c>>)

C35_MergesOnlyOnRunBranch ==
    /\ \A k \in 1..Len(attempts) :
        /\ attempts[k].before.head = "merge"
        /\ attempts[k].after.head = "merge"
    /\ ws.head = "main" => ws.merged = {}
    /\ CreationFailed => attempts = <<>>

(***************************************************************************)
(* C36: a call of distribute_tasks that follows another on the same        *)
(* object works on a pool of one Agent per registry row and ends with the  *)
(* assignment and the per-agent totals that the call before it persisted.  *)
(***************************************************************************)
OneAgentPerRow ==
    /\ Len(agents) = Len(agents_csv)
    /\ \A i \in 1..Len(agents) : agents[i].agent_id = agents_csv[i]

C36_DistributeRepeatable ==
    /\ dist_pc \in {"first_pass", "second_pass", "assigned", "done"} =>
          OneAgentPerRow
    /\ (dist_pc = "assigned" /\ registry_out # <<>>) =>
        /\ RegistryRows(tasks) = registry_out
        /\ SummaryAgents(agents) = summary_out

(***************************************************************************)
(* C37: a least-loaded agent is never above the load limit, so a task is   *)
(* deferred only when every agent within the limit holds one of its        *)
(* dependencies; a task without dependencies is never deferred.            *)
(***************************************************************************)
DeferredHaveDependencies ==
    \A k \in 1..Len(unassigned) : tasks[unassigned[k]].dependencies # {}

LeastLoadedWithinLimit ==
    dist_pc \in {"first_pass", "second_pass"} =>
        \A a \in 1..Len(agents) :
            (\A b \in 1..Len(agents) :
                agents[a].total_time <= agents[b].total_time)
            => WithinLoadLimit(a)

DeferralStep ==
    (dist_pc = "first_pass" /\ unassigned' # unassigned) =>
        /\ unassigned' = Append(unassigned, sorted_tasks[cursor])
        /\ \A a \in 1..Len(agents) :
              WithinLoadLimit(a) => HoldsDepOf(tasks[sorted_tasks[cursor]], a)
        /\ \E a \in 1..Len(agents) : WithinLoadLimit(a)

C37_OnlyDependenciesDefer ==
    /\ [](DeferredHaveDependencies /\ LeastLoadedWithinLimit)
    /\ [][DeferralStep]_vars

\* One task waits for the second pass: each agent within the limit holds
\* one of its dependencies, the two agents carry different loads, and a
\* task without dependencies has been placed by the first pass.
C37_Witness ==
    /\ dist_pc = "second_pass"
    /\ Len(unassigned) = 1
    /\ \A a \in 1..Len(agents) :
          WithinLoadLimit(a) => HoldsDepOf(tasks[unassigned[1]], a)
    /\ \E i \in 1..Len(tasks) :
          tasks[i].dependencies = {} /\ tasks[i].assigned_agent # None
    /\ Len(agents) = 2
    /\ agents[1].total_time # agents[2].total_time

(***************************************************************************)
(* C38: every message sent has a file of its own, and get_messages for     *)
(* its recipient returns it as unread as long as mark_message_read has     *)
(* not been applied to it.                                                 *)
(***************************************************************************)
Delivered(message) ==
    \E k \in DOMAIN GetMessages(msg_files, message.to_agent, "unread") :
        GetMessages(msg_files, message.to_agent, "unread")[k] = message

C38_NoMessageLost ==
    /\ Cardinality(DOMAIN msg_files) = Len(sent)
    /\ \A k \in 1..Len(sent) : ~sent[k].marked => Delivered(sent[k].message)

(***************************************************************************)
(* C39: with input dependencies free of self-references and duplicates,    *)
(* whatever the number of analyze_requirements calls, no task is among     *)
(* its own dependencies and no task id occurs twice in a dependency list.  *)
(***************************************************************************)
NoSelfDependency ==
    \A i \in 1..Len(planner_tasks) :
        \A k \in 1..Len(planner_tasks[i].dependencies) :
            planner_tasks[i].dependencies[k] # planner_tasks[i].task_id

NoRepeatedDependency ==
    \A i \in 1..Len(planner_tasks) :
        \A k, m \in 1..Len(planner_tasks[i].dependencies) :
            k # m => planner_tasks[i].dependencies[k]
                        # planner_tasks[i].dependencies[m]

C39_DependenciesFormASet == NoSelfDependency /\ NoRepeatedDependency

(***************************************************************************)
(* C40: when the dependencies of the saved plan have no cycle, every task  *)
(* of tasks/task_plan.json comes after all the tasks it depends on.        *)
(***************************************************************************)
PlanIds == {task_plan[i].task_id : i \in 1..Len(task_plan)}

PlanDepsOf(t) ==
    UNION {task_plan[i].dependencies :
              i \in {j \in 1..Len(task_plan) : task_plan[j].task_id = t}}

\* The tasks that the tasks of S depend on, through at most n steps.
RECURSIVE PlanDependedOn(_, _)
PlanDependedOn(S, n) ==
    IF n = 0 THEN S
    ELSE PlanDependedOn(S \cup UNION {PlanDepsOf(t) : t \in S}, n - 1)

PlanCyclic ==
    \E t \in PlanIds : t \in PlanDependedOn(PlanDepsOf(t), Cardinality(PlanIds))

DependenciesFirst ==
    \A i \in 1..Len(task_plan) :
        \A d \in task_plan[i].dependencies :
            \E j \in 1..(i - 1) : task_plan[j].task_id = d

C40_SavedOrderTopological ==
    (planner_pc = "saved" /\ ~PlanCyclic) => DependenciesFirst

====
